---------------------------- MODULE Spec2Model ----------------------------
(***************************************************************************)
(* A model of the book catalog editor (manage_books.py) and of the table   *)
(* renderer (gen_table.py).                                                *)
(*                                                                         *)
(* The catalog (BookManager.books) is a forest of dictionaries.  A leaf    *)
(* carries the seven leaf keys, an interior carries author, title and the  *)
(* list "data" of its parts.  Text is a sequence of code points, so that   *)
(* strip(), int(), float() and string comparison are computed the way the  *)
(* program computes them.  A price is held in thousandths of a euro.       *)
(*                                                                         *)
(* A node of the forest is named by its path: the sequence of 1-based      *)
(* positions leading to it from the list of roots.  The path stands for    *)
(* the identity of the dictionary object the Python code holds a           *)
(* reference to.                                                           *)
(***************************************************************************)
EXTENDS Integers, Sequences, FiniteSets, TLC

VARIABLES
    books,      \* BookManager.books
    lastOp,     \* the handler of main()'s loop that ran last
    ops,        \* number of handlers run so far
    pc,         \* where manage_books.py is: "start", "menu" or "exited"
    exit_code,  \* the argument of sys.exit, NoExit while the program runs
    files,      \* the files of /save/scripts/report_lulu
    printed,    \* the messages of load_books, save_books and of choices 0, 4
    commands,   \* the subprocesses run, each with its exit code
    render      \* the gen_table.py process: its stage and local variables

vars == <<books, lastOp, ops, pc, exit_code, files, printed, commands, render>>

(***************************************************************************)
(* Bounds of the model.                                                    *)
(***************************************************************************)
\* Number of main-menu operations in one session.
MaxOps == 2
\* Number of lines the user types at one prompt before a valid one.
MaxAttempts == 2

(***************************************************************************)
(* Module constants of manage_books.py.                                    *)
(***************************************************************************)
BOOK_CATEGORIES ==
    << <<77, 117, 115, 105, 99>>,
       <<82, 101, 108, 105, 103, 105, 111, 110, 32, 38, 32, 83, 112, 105,
         114, 105, 116, 117, 97, 108, 105, 116, 121>>,
       <<80, 104, 105, 108, 111, 115, 111, 112, 104, 121>>,
       <<72, 105, 115, 116, 111, 114, 121>> >>

BOOK_SIZES ==
    << <<80, 111, 99, 107, 101, 116>>,
       <<80, 111, 99, 107, 101, 116, 32, 66, 111, 111, 107>>,
       <<68, 105, 103, 101, 115, 116>>,
       <<69, 120, 101, 99, 117, 116, 105, 118, 101>>,
       <<85, 83, 32, 84, 114, 97, 100, 101>>,
       <<65, 53>>,
       <<65, 52>> >>

\* LANGUAGES: the label of each code the editor offers.
LANGUAGES ==
    (<<102, 114, 97>> :> <<70, 114, 97, 110, 231, 97, 105, 115>>) @@
    (<<108, 97, 116>> :> <<76, 97, 116, 105, 110>>) @@
    (<<101, 110, 103>> :> <<65, 110, 103, 108, 97, 105, 115>>)

\* list(LANGUAGES.keys()): the codes in insertion order.
LANGUAGES_keys ==
    << <<102, 114, 97>>, <<108, 97, 116>>, <<101, 110, 103>> >>

(***************************************************************************)
(* Text helpers: what str.strip(), str.lower(), int() and float() do.      *)
(***************************************************************************)
IsSpace(c) == c \in {9, 10, 32}

IsDigit(c) == c \in 48..57

RECURSIVE lstrip(_)
lstrip(s) ==
    IF s # <<>> /\ IsSpace(Head(s)) THEN lstrip(Tail(s)) ELSE s

RECURSIVE rstrip(_)
rstrip(s) ==
    IF s # <<>> /\ IsSpace(s[Len(s)])
    THEN rstrip(SubSeq(s, 1, Len(s) - 1))
    ELSE s

strip(s) == rstrip(lstrip(s))

lower(s) ==
    [i \in DOMAIN s |-> IF s[i] \in 65..90 THEN s[i] + 32 ELSE s[i]]

AllDigits(s) == \A i \in DOMAIN s : IsDigit(s[i])

RECURSIVE DigitsValue(_)
DigitsValue(s) ==
    IF s = <<>> THEN 0
    ELSE 10 * DigitsValue(SubSeq(s, 1, Len(s) - 1)) + (s[Len(s)] - 48)

\* The sign of a numeric literal and the literal without it.
SignOf(s) == IF s # <<>> /\ s[1] = 45 THEN -1 ELSE 1

Unsigned(s) == IF s # <<>> /\ s[1] \in {43, 45} THEN Tail(s) ELSE s

\* int(line): surrounding whitespace, an optional sign, decimal digits.
\* ok = FALSE stands for ValueError.
int(line) ==
    LET body == Unsigned(strip(line)) IN
    IF body # <<>> /\ AllDigits(body)
    THEN [ok |-> TRUE, val |-> SignOf(strip(line)) * DigitsValue(body)]
    ELSE [ok |-> FALSE, val |-> 0]

\* Position of the first "." of s, 0 when there is none.
DotAt(s) ==
    IF \E i \in DOMAIN s : s[i] = 46
    THEN CHOOSE i \in DOMAIN s : s[i] = 46 /\ \A j \in 1..(i - 1) : s[j] # 46
    ELSE 0

\* The first three fraction digits as thousandths.
Thousandths(f) ==
    LET d(i) == IF i <= Len(f) THEN f[i] - 48 ELSE 0
    IN  100 * d(1) + 10 * d(2) + d(3)

\* float(line) for decimal literals, in thousandths: surrounding whitespace,
\* an optional sign, digits with an optional fraction.  ok = FALSE stands
\* for ValueError.
float(line) ==
    LET body == Unsigned(strip(line))
        dot  == DotAt(body)
        ip   == IF dot = 0 THEN body ELSE SubSeq(body, 1, dot - 1)
        fp   == IF dot = 0 THEN <<>> ELSE SubSeq(body, dot + 1, Len(body))
    IN  IF AllDigits(ip) /\ AllDigits(fp) /\ Len(ip) + Len(fp) > 0
        THEN [ok |-> TRUE,
              val |-> SignOf(strip(line))
                        * (1000 * DigitsValue(ip) + Thousandths(fp))]
        ELSE [ok |-> FALSE, val |-> 0]

\* str(n) for n >= 0: what the user types to enter the number n.
RECURSIVE str(_)
str(n) ==
    IF n < 10 THEN <<48 + n>> ELSE str(n \div 10) \o <<48 + (n % 10)>>

InList(x, l) == \E i \in DOMAIN l : l[i] = x

\* The sequences of 1..MaxAttempts lines over a set of typed lines.
Attempts(lines) == UNION {[1..k -> lines] : k \in 1..MaxAttempts}


(***************************************************************************)
(* UserInterface: the validation loops.  `lines` is what the user types at *)
(* the prompt, one line per iteration of the loop.  done = FALSE: the      *)
(* lines ran out before a valid one, the loop is still prompting and the   *)
(* handler has not returned.                                               *)
(***************************************************************************)
\* get_int_input without the comparison to min_value.
RECURSIVE get_int_input_no_minimum(_, _)
get_int_input_no_minimum(lines, min_value) ==
    IF lines = <<>> THEN [done |-> FALSE, val |-> 0]
    ELSE LET value == int(Head(lines)) IN
         IF value.ok
         THEN [done |-> TRUE, val |-> value.val]
         ELSE get_int_input_no_minimum(Tail(lines), min_value)

RECURSIVE get_int_input(_, _)
get_int_input(lines, min_value) ==
    IF lines = <<>> THEN [done |-> FALSE, val |-> 0]
    ELSE LET value == int(Head(lines)) IN
         IF value.ok /\ value.val >= min_value
         THEN [done |-> TRUE, val |-> value.val]
         ELSE get_int_input(Tail(lines), min_value)

RECURSIVE get_float_input(_, _)
get_float_input(lines, min_value) ==
    IF lines = <<>> THEN [done |-> FALSE, val |-> 0]
    ELSE LET value == float(Head(lines)) IN
         IF value.ok /\ value.val >= min_value
         THEN [done |-> TRUE, val |-> value.val]
         ELSE get_float_input(Tail(lines), min_value)

RECURSIVE get_choice_input(_, _)
get_choice_input(lines, choices) ==
    IF lines = <<>> THEN [done |-> FALSE, val |-> <<>>]
    ELSE LET choice_input == Head(lines)
             choice_idx   == int(choice_input)
         IN  IF choice_idx.ok
             THEN IF 1 <= choice_idx.val /\ choice_idx.val <= Len(choices)
                  THEN [done |-> TRUE, val |-> choices[choice_idx.val]]
                  ELSE get_choice_input(Tail(lines), choices)
             ELSE IF InList(choice_input, choices)
                  THEN [done |-> TRUE, val |-> choice_input]
                  ELSE get_choice_input(Tail(lines), choices)

RECURSIVE get_text_input(_, _)
get_text_input(lines, allow_empty) ==
    IF lines = <<>> THEN [done |-> FALSE, val |-> <<>>]
    ELSE LET value == strip(Head(lines)) IN
         IF value # <<>> \/ allow_empty
         THEN [done |-> TRUE, val |-> value]
         ELSE get_text_input(Tail(lines), allow_empty)

RECURSIVE confirm(_)
confirm(lines) ==
    IF lines = <<>> THEN [done |-> FALSE, val |-> FALSE]
    ELSE LET response == lower(strip(Head(lines))) IN
         IF response \in {<<121>>, <<121, 101, 115>>}
         THEN [done |-> TRUE, val |-> TRUE]
         ELSE IF response \in {<<110>>, <<110, 111>>}
              THEN [done |-> TRUE, val |-> FALSE]
              ELSE confirm(Tail(lines))

\* The values a prompt can return: those of the loops that ended.
Returned(results) == {r.val : r \in {x \in results : x.done}}

(***************************************************************************)
(* What the user types.  Every set holds lines the loop rejects (not a     *)
(* number, below the minimum, empty after strip) next to lines it accepts. *)
(***************************************************************************)
\* "abc", "-1", "0", " 1 "
TypedPageCount == {<<97, 98, 99>>, <<45, 49>>, <<48>>, <<32, 49, 32>>}

\* "x", "-0.5", "0", "12.5"
TypedPrice == {<<120>>, <<45, 48, 46, 53>>, <<48>>, <<49, 50, 46, 53>>}

\* "", "  ", " A "
TypedAuthor == {<<>>, <<32, 32>>, <<32, 65, 32>>}

\* "", " ", "B "
TypedTitle == {<<>>, <<32>>, <<66, 32>>}

\* "abc", "0", "1", " 2"
TypedNumParts == {<<97, 98, 99>>, <<48>>, <<49>>, <<32, 50>>}

\* "0", "5", "zzz", "history", "4", "History"
TypedCategory ==
    {<<48>>, <<53>>, <<122, 122, 122>>,
     <<104, 105, 115, 116, 111, 114, 121>>,
     <<52>>, <<72, 105, 115, 116, 111, 114, 121>>}

\* "0", "8", "pocket", "1", "Pocket"
TypedSize ==
    {<<48>>, <<56>>, <<112, 111, 99, 107, 101, 116>>, <<49>>,
     <<80, 111, 99, 107, 101, 116>>}

\* "4", "heb", "2", "lat"
TypedLanguage == {<<52>>, <<104, 101, 98>>, <<50>>, <<108, 97, 116>>}

\* "maybe", "", "y", " YES ", "n", "No"
TypedConfirm ==
    {<<109, 97, 121, 98, 101>>, <<>>, <<121>>, <<32, 89, 69, 83, 32>>,
     <<110>>, <<78, 111>>}

\* A menu or selection prompt: the numbers 0..top, and lines that are
\* rejected ("abc", "-1").
TypedNumber(top) == {str(n) : n \in 0..top} \cup {<<97, 98, 99>>, <<45, 49>>}

PageCountAnswers ==
    Returned({get_int_input(a, 1) : a \in Attempts(TypedPageCount)})

PriceAnswers ==
    Returned({get_float_input(a, 0) : a \in Attempts(TypedPrice)})

AuthorAnswers ==
    Returned({get_text_input(a, FALSE) : a \in Attempts(TypedAuthor)})

TitleAnswers ==
    Returned({get_text_input(a, FALSE) : a \in Attempts(TypedTitle)})

NumPartsAnswers ==
    Returned({get_int_input(a, 1) : a \in Attempts(TypedNumParts)})

CategoryAnswers ==
    Returned({get_choice_input(a, BOOK_CATEGORIES) :
                 a \in Attempts(TypedCategory)})

SizeAnswers ==
    Returned({get_choice_input(a, BOOK_SIZES) : a \in Attempts(TypedSize)})

LanguageAnswers ==
    Returned({get_choice_input(a, LANGUAGES_keys) :
                 a \in Attempts(TypedLanguage)})

ConfirmAnswers == Returned({confirm(a) : a \in Attempts(TypedConfirm)})

\* A prompt with min_value = 0 at which the user types numbers up to top.
NumberAnswers(top) ==
    Returned({get_int_input(a, 0) : a \in Attempts(TypedNumber(top))})


(***************************************************************************)
(* The catalog: nodes, paths and the traversals of BookManager.            *)
(***************************************************************************)
\* `"data" in book`: the presence of the key discriminates the variant.
HasData(book) == "data" \in DOMAIN book

\* The dictionary create_simple_book returns.
create_simple_book(author, book_category, book_size, language, title, page_count, price) ==
    [author |-> author, book_category |-> book_category,
     book_size |-> book_size, language |-> language,
     page_count |-> page_count, price |-> price, title |-> title]

\* The object a path refers to.
RECURSIVE NodeAt(_, _)
NodeAt(bs, path) ==
    IF Len(path) = 1 THEN bs[path[1]]
    ELSE NodeAt(bs[path[1]].data, Tail(path))

\* ReplaceAt that puts `node` in the place of each dictionary of the list
\* that holds the dictionary at `path`.
RECURSIVE ReplaceAt_whole_list(_, _, _)
ReplaceAt_whole_list(bs, path, node) ==
    IF Len(path) = 1 THEN [i \in DOMAIN bs |-> node]
    ELSE [bs EXCEPT ![path[1]] =
              [@ EXCEPT !.data = ReplaceAt_whole_list(@, Tail(path), node)]]

\* The forest after the dictionary at `path` was mutated into `node`.
RECURSIVE ReplaceAt(_, _, _)
ReplaceAt(bs, path, node) ==
    IF Len(path) = 1 THEN [bs EXCEPT ![path[1]] = node]
    ELSE [bs EXCEPT ![path[1]] =
              [@ EXCEPT !.data = ReplaceAt(@, Tail(path), node)]]

\* The pre-order walk of a forest, written out: a node, then its parts left
\* to right, then its next sibling.  The n-th element is the path of the
\* n-th node.
RECURSIVE PreOrder(_, _, _)
PreOrder(bs, i, prefix) ==
    IF i > Len(bs) THEN <<>>
    ELSE <<prefix \o <<i>>>>
         \o (IF HasData(bs[i]) THEN PreOrder(bs[i].data, 1, prefix \o <<i>>)
             ELSE <<>>)
         \o PreOrder(bs, i + 1, prefix)

Walk(bs) == PreOrder(bs, 1, <<>>)

NodeCount(bs) == Len(Walk(bs))

Paths(bs) == {Walk(bs)[n] : n \in 1..NodeCount(bs)}

\* find_book_by_index with the count of a nested list lost: after a part
\* list without the target, the loop goes on from the parent's own number.
RECURSIVE find_book_loop_lost_count(_, _, _, _, _)
find_book_loop_lost_count(bs, i, target_index, current_index, prefix) ==
    IF i > Len(bs) THEN << <<>>, current_index >>
    ELSE LET cur == current_index + 1 IN
         IF cur = target_index THEN << prefix \o <<i>>, cur >>
         ELSE IF HasData(bs[i])
              THEN LET r == find_book_loop_lost_count(bs[i].data, 1,
                                target_index, cur, prefix \o <<i>>)
                   IN  IF r[1] # <<>> THEN r
                       ELSE find_book_loop_lost_count(bs, i + 1,
                                target_index, cur, prefix)
              ELSE find_book_loop_lost_count(bs, i + 1, target_index, cur,
                                             prefix)

\* find_book_by_index comparing before it counts: numbers start at 0.
RECURSIVE find_book_loop_from_zero(_, _, _, _, _)
find_book_loop_from_zero(bs, i, target_index, current_index, prefix) ==
    IF i > Len(bs) THEN << <<>>, current_index >>
    ELSE IF current_index = target_index
         THEN << prefix \o <<i>>, current_index >>
         ELSE LET cur == current_index + 1 IN
              IF HasData(bs[i])
              THEN LET r == find_book_loop_from_zero(bs[i].data, 1,
                                target_index, cur, prefix \o <<i>>)
                   IN  IF r[1] # <<>> THEN r
                       ELSE find_book_loop_from_zero(bs, i + 1,
                                target_index, r[2], prefix)
              ELSE find_book_loop_from_zero(bs, i + 1, target_index, cur,
                                            prefix)

\* BookManager.find_book_by_index: the loop `for book in books` from
\* position i on, with the running current_index.  Returns <<book,
\* current_index>>, the book as its path and None as the empty path.
RECURSIVE find_book_loop(_, _, _, _, _)
find_book_loop(bs, i, target_index, current_index, prefix) ==
    IF i > Len(bs) THEN << <<>>, current_index >>
    ELSE LET cur == current_index + 1 IN
         IF cur = target_index THEN << prefix \o <<i>>, cur >>
         ELSE IF HasData(bs[i])
              THEN LET r == find_book_loop(bs[i].data, 1, target_index, cur,
                                           prefix \o <<i>>)
                   IN  IF r[1] # <<>> THEN r
                       ELSE find_book_loop(bs, i + 1, target_index, r[2],
                                           prefix)
              ELSE find_book_loop(bs, i + 1, target_index, cur, prefix)

find_book_by_index(bs, target_index) ==
    find_book_loop(bs, 1, target_index, 0, <<>>)

\* BookManager.display_books: the lines printed, in order.  A line shows
\* the number idx of enumerate(books, 1), indented; `node` is the node whose
\* title and author the line shows.
RECURSIVE display_loop(_, _, _, _)
display_loop(bs, i, indent, prefix) ==
    IF i > Len(bs) THEN <<>>
    ELSE << [number |-> i, indent |-> indent, node |-> prefix \o <<i>>] >>
         \o (IF HasData(bs[i])
             THEN display_loop(bs[i].data, 1, indent + 1, prefix \o <<i>>)
             ELSE <<>>)
         \o display_loop(bs, i + 1, indent, prefix)

display_books(bs) == display_loop(bs, 1, 0, <<>>)

(***************************************************************************)
(* BookEditor: the mutations.                                              *)
(***************************************************************************)
\* _update_author_recursively without the recursive call: only the direct
\* parts get the new author.
update_author_not_nested(data, new_author) ==
    [i \in DOMAIN data |-> [data[i] EXCEPT !.author = new_author]]

\* _update_author_recursively that writes the name under "title" too.
RECURSIVE update_author_and_title(_, _)
update_author_and_title(data, new_author) ==
    [i \in DOMAIN data |->
        IF HasData(data[i])
        THEN [data[i] EXCEPT
                 !.author = new_author, !.title = new_author,
                 !.data = update_author_and_title(@, new_author)]
        ELSE [data[i] EXCEPT !.author = new_author, !.title = new_author]]

\* _update_author_recursively(data, new_author): the list after the loop.
RECURSIVE update_author_recursively(_, _)
update_author_recursively(data, new_author) ==
    [i \in DOMAIN data |->
        IF HasData(data[i])
        THEN [data[i] EXCEPT
                 !.author = new_author,
                 !.data = update_author_recursively(@, new_author)]
        ELSE [data[i] EXCEPT !.author = new_author]]

\* _get_first_leaf_book(data): the first leaf in pre-order from position i
\* on, as a one-element sequence; <<>> for None.
RECURSIVE get_first_leaf_book(_, _)
get_first_leaf_book(data, i) ==
    IF i > Len(data) THEN <<>>
    ELSE IF ~HasData(data[i]) THEN <<data[i]>>
         ELSE LET result == get_first_leaf_book(data[i].data, 1) IN
              IF result # <<>> THEN result
              ELSE get_first_leaf_book(data, i + 1)

\* new_part taking the author, like the other common fields, from the first
\* leaf of the book.  (_add_part_to_book runs on books with a leaf.)
new_part_author_of_first_leaf(book, book_category, book_size, language, part_title, page_count, price) ==
    [author |-> get_first_leaf_book(book.data, 1)[1].author,
     book_category |-> book_category,
     book_size |-> book_size, language |-> language,
     page_count |-> page_count, price |-> price, title |-> part_title]

\* new_part with the "language" key forgotten.
new_part_without_language(book, book_category, book_size, language, part_title, page_count, price) ==
    [author |-> book.author, book_category |-> book_category,
     book_size |-> book_size,
     page_count |-> page_count, price |-> price, title |-> part_title]

\* The dictionary new_part that _add_part_to_book builds.
new_part(book, book_category, book_size, language, part_title, page_count, price) ==
    [author |-> book.author, book_category |-> book_category,
     book_size |-> book_size, language |-> language,
     page_count |-> page_count, price |-> price, title |-> part_title]

\* book["data"].insert(0, new_part)
prepend_part(book, part) == [book EXCEPT !.data = <<part>> \o @]

\* book["data"] = [new_part]
replace_parts(book, part) == [book EXCEPT !.data = <<part>>]

\* book["data"].append(new_part)
append_part(book, part) == [book EXCEPT !.data = Append(@, part)]


(***************************************************************************)
(* BookCreator.                                                            *)
(***************************************************************************)
\* create_multi_part_book that puts each new part in front of the others.
create_multi_part_book_reversed(author, book_category, book_size, language, main_title, num_parts, parts) ==
    [author |-> author, title |-> main_title,
     data |-> [i \in 1..num_parts |->
                  create_simple_book(author, book_category, book_size,
                                     language,
                                     parts[num_parts + 1 - i].title,
                                     parts[num_parts + 1 - i].page_count,
                                     parts[num_parts + 1 - i].price)]]

\* create_multi_part_book: `parts` holds, for i in range(1, num_parts + 1),
\* the title, page count and price entered for part i.
create_multi_part_book(author, book_category, book_size, language, main_title, num_parts, parts) ==
    [author |-> author, title |-> main_title,
     data |-> [i \in 1..num_parts |->
                  create_simple_book(author, book_category, book_size,
                                     language, parts[i].title,
                                     parts[i].page_count, parts[i].price)]]

\* What the three prompts of one part can return.
PartAnswers ==
    [title : TitleAnswers, page_count : PageCountAnswers,
     price : PriceAnswers]

(***************************************************************************)
(* The data file: json.dump and json.load.  The text of the file is held   *)
(* as its sequence of JSON tokens (the indentation json.dump writes        *)
(* between tokens is white space json.load skips).  A token is a record    *)
(* [t, v]: t is a punctuation mark, "str" or "num", v the code points of   *)
(* the string or of the number literal.  A number read under the key       *)
(* "price" is a price (in thousandths), any other number an integer.       *)
(***************************************************************************)
Tok(t, v) == [t |-> t, v |-> v]

\* The keys of the catalog's dictionaries, as written in the file.
KeyText ==
    [author |-> <<97, 117, 116, 104, 111, 114>>,
     book_category |-> <<98, 111, 111, 107, 95, 99, 97, 116, 101, 103, 111,
                         114, 121>>,
     book_size |-> <<98, 111, 111, 107, 95, 115, 105, 122, 101>>,
     language |-> <<108, 97, 110, 103, 117, 97, 103, 101>>,
     page_count |-> <<112, 97, 103, 101, 95, 99, 111, 117, 110, 116>>,
     price |-> <<112, 114, 105, 99, 101>>,
     title |-> <<116, 105, 116, 108, 101>>,
     data |-> <<100, 97, 116, 97>>]

\* The order in which create_simple_book and create_multi_part_book insert
\* the keys, which is the order json.dump writes them in.
KeyOrder ==
    <<"author", "book_category", "book_size", "language", "page_count",
      "price", "title", "data">>

\* int.__repr__: the decimal digits, after a "-" for a negative number.
int_repr(n) == IF n < 0 THEN <<45>> \o str(0 - n) ELSE str(n)

\* float.__repr__ that drops the fraction.
float_repr_truncated(p) == str(p \div 1000) \o <<46, 48>>

\* float.__repr__ of a price of p thousandths: the integer part, ".", and
\* the fraction without its trailing zeros but with one digit at least.
float_repr(p) ==
    LET a == IF p < 0 THEN 0 - p ELSE p
        f == a % 1000
        digits == <<48 + (f \div 100), 48 + ((f \div 10) % 10), 48 + (f % 10)>>
        kept == IF f % 10 # 0 THEN 3 ELSE IF f % 100 # 0 THEN 2 ELSE 1
    IN  (IF p < 0 THEN <<45>> ELSE <<>>) \o str(a \div 1000) \o <<46>>
          \o SubSeq(digits, 1, kept)

RECURSIVE dump_list(_, _)
RECURSIVE dump_dict(_, _, _)

\* The tokens of the value d[key].
dump_value(d, key) ==
    CASE key = "data"       -> <<Tok("[", <<>>)>> \o dump_list(d[key], 1)
                                 \o <<Tok("]", <<>>)>>
      [] key = "page_count" -> <<Tok("num", int_repr(d[key]))>>
      [] key = "price"      -> <<Tok("num", float_repr(d[key]))>>
      [] OTHER              -> <<Tok("str", d[key])>>

\* The members of the dictionary d from the k-th key of KeyOrder on;
\* `first` tells that no member has been written yet.
dump_dict(d, k, first) ==
    IF k > Len(KeyOrder) THEN <<>>
    ELSE IF KeyOrder[k] \notin DOMAIN d THEN dump_dict(d, k + 1, first)
    ELSE (IF first THEN <<>> ELSE <<Tok(",", <<>>)>>)
           \o <<Tok("str", KeyText[KeyOrder[k]]), Tok(":", <<>>)>>
           \o dump_value(d, KeyOrder[k])
           \o dump_dict(d, k + 1, FALSE)

\* The items of the list l from the i-th on.
dump_list(l, i) ==
    IF i > Len(l) THEN <<>>
    ELSE (IF i = 1 THEN <<>> ELSE <<Tok(",", <<>>)>>)
           \o <<Tok("{", <<>>)>> \o dump_dict(l[i], 1, TRUE)
           \o <<Tok("}", <<>>)>>
           \o dump_list(l, i + 1)

\* json.dump(self.books, f, indent=4, ensure_ascii=False)
json_dump(bs) ==
    <<Tok("[", <<>>)>> \o dump_list(bs, 1) \o <<Tok("]", <<>>)>>

\* The outcome of a failed parse: json.JSONDecodeError.
JSONDecodeError == [ok |-> FALSE, val |-> <<>>, next |-> 0]

\* The token at position i is the punctuation mark t.
IsTok(toks, i, t) == i <= Len(toks) /\ toks[i].t = t

\* The key whose text is v; {} when v is no key of the catalog.
KeyNamed(v) == {k \in DOMAIN KeyText : KeyText[k] = v}

\* The number a literal denotes under the key `key`.
parse_number(v, key) == IF key = "price" THEN float(v) ELSE int(v)

RECURSIVE parse_value(_, _, _)
RECURSIVE parse_items(_, _, _)
RECURSIVE parse_members(_, _, _)

\* The JSON value that starts at position i; `next` is the position after
\* it.
parse_value(toks, i, key) ==
    IF i > Len(toks) THEN JSONDecodeError
    ELSE CASE toks[i].t = "str" ->
                [ok |-> TRUE, val |-> toks[i].v, next |-> i + 1]
           [] toks[i].t = "num" ->
                LET n == parse_number(toks[i].v, key) IN
                IF n.ok THEN [ok |-> TRUE, val |-> n.val, next |-> i + 1]
                ELSE JSONDecodeError
           [] toks[i].t = "[" ->
                IF IsTok(toks, i + 1, "]")
                THEN [ok |-> TRUE, val |-> <<>>, next |-> i + 2]
                ELSE parse_items(toks, i + 1, <<>>)
           [] toks[i].t = "{" ->
                IF IsTok(toks, i + 1, "}")
                THEN [ok |-> TRUE, val |-> <<>>, next |-> i + 2]
                ELSE parse_members(toks, i + 1, <<>>)
           [] OTHER -> JSONDecodeError

\* The items of an array from position i on, after the items `acc`.
parse_items(toks, i, acc) ==
    LET item == parse_value(toks, i, "") IN
    IF ~item.ok THEN JSONDecodeError
    ELSE IF IsTok(toks, item.next, ",")
         THEN parse_items(toks, item.next + 1, Append(acc, item.val))
         ELSE IF IsTok(toks, item.next, "]")
              THEN [ok |-> TRUE, val |-> Append(acc, item.val),
                    next |-> item.next + 1]
              ELSE JSONDecodeError

\* The members of an object from position i on, after the members `acc`.
\* A key written twice keeps its last value.
parse_members(toks, i, acc) ==
    IF ~(IsTok(toks, i, "str") /\ IsTok(toks, i + 1, ":")
           /\ KeyNamed(toks[i].v) # {})
    THEN JSONDecodeError
    ELSE LET key    == CHOOSE k \in KeyNamed(toks[i].v) : TRUE
             member == parse_value(toks, i + 2, key)
         IN  IF ~member.ok THEN JSONDecodeError
             ELSE IF IsTok(toks, member.next, ",")
                  THEN parse_members(toks, member.next + 1,
                                     (key :> member.val) @@ acc)
                  ELSE IF IsTok(toks, member.next, "}")
                       THEN [ok |-> TRUE, val |-> (key :> member.val) @@ acc,
                             next |-> member.next + 1]
                       ELSE JSONDecodeError

\* json.load(f): the value of the whole text.  ok = FALSE stands for
\* json.JSONDecodeError.
json_load(toks) ==
    LET value == parse_value(toks, 1, "") IN
    IF value.ok /\ value.next = Len(toks) + 1
    THEN [ok |-> TRUE, val |-> value.val]
    ELSE [ok |-> FALSE, val |-> <<>>]

(***************************************************************************)
(* The files of /save/scripts/report_lulu: data.txt, which both programs   *)
(* open, and out.html, which gen_table.py writes.                          *)
(***************************************************************************)
File(text) == [exists |-> TRUE, text |-> text]

NoFile == [exists |-> FALSE, text |-> <<>>]

Files(data, out) == ("data.txt" :> data) @@ ("out.html" :> out)

\* gen_table.py is not running.
NotRendering ==
    [stage |-> "idle", input |-> <<>>, data |-> <<>>, table |-> <<>>]

\* A line printed: its text and the number it reports.
Message(text, n) == [text |-> text, n |-> n]

(***************************************************************************)
(* The catalogs the session starts from: the content of the data file.     *)
(***************************************************************************)
\* A simple book and a two-part book.
SampleCatalog ==
    << create_simple_book(<<84>>, BOOK_CATEGORIES[1], BOOK_SIZES[7],
                          LANGUAGES_keys[1], <<83>>, 100, 10500),
       [author |-> <<77>>, title |-> <<77>>,
        data |-> << create_simple_book(<<77>>, BOOK_CATEGORIES[3],
                                       BOOK_SIZES[6], LANGUAGES_keys[3],
                                       <<80>>, 200, 15000),
                    create_simple_book(<<77>>, BOOK_CATEGORIES[3],
                                       BOOK_SIZES[6], LANGUAGES_keys[3],
                                       <<81>>, 250, 17500) >>] >>

\* A series holding a sub-series of two parts, followed by a simple book.
NestedCatalog ==
    << [author |-> <<67>>, title |-> <<77>>,
        data |-> << [author |-> <<67>>, title |-> <<83>>,
                     data |-> << create_simple_book(<<68>>,
                                     BOOK_CATEGORIES[4], BOOK_SIZES[3],
                                     LANGUAGES_keys[2], <<80>>, 300, 20000),
                                 create_simple_book(<<67>>,
                                     BOOK_CATEGORIES[4], BOOK_SIZES[3],
                                     LANGUAGES_keys[2], <<80>>, 350,
                                     22000) >>] >>],
       create_simple_book(<<84>>, BOOK_CATEGORIES[1], BOOK_SIZES[7],
                          LANGUAGES_keys[1], <<65>>, 100, 10500) >>

LoadableCatalogs == {<<>>, SampleCatalog, NestedCatalog}

(***************************************************************************)
(* The session: main()'s menu loop.  lastOp records the handler that ran   *)
(* last: the number typed at "Enter the number of the book" (target), the  *)
(* node selected (path, <<>> for none), the choice in the sub-menu (sub),  *)
(* the value entered for the field edited (value) and the handler's return *)
(* value (ret).                                                            *)
(***************************************************************************)
Init ==
    /\ books \in LoadableCatalogs
    /\ lastOp = [kind |-> "load", target |-> 0, path |-> <<>>, sub |-> 0,
                 value |-> <<>>, ret |-> TRUE]
    /\ ops = 0
    /\ pc = "menu"
    /\ exit_code = <<>>
    /\ files = Files(File(json_dump(books)), NoFile)
    /\ printed = <<Message("Loaded book entries", Len(books))>>
    /\ commands = <<>>
    /\ render = NotRendering

\* Return that reports every operation as one that changed the catalog.
Return_always_true(kind, target, path, sub, value, ret, bs) ==
    /\ books' = bs
    /\ lastOp' = [kind |-> kind, target |-> target, path |-> path,
                  sub |-> sub, value |-> value, ret |-> TRUE]
    /\ ops' = ops + 1
    /\ UNCHANGED <<pc, exit_code, files, printed, commands, render>>

\* Return that writes the catalog to the data file after every operation.
Return_saves(kind, target, path, sub, value, ret, bs) ==
    /\ books' = bs
    /\ lastOp' = [kind |-> kind, target |-> target, path |-> path,
                  sub |-> sub, value |-> value, ret |-> ret]
    /\ ops' = ops + 1
    /\ files' = [files EXCEPT !["data.txt"] = File(json_dump(bs))]
    /\ UNCHANGED <<pc, exit_code, printed, commands, render>>

\* The handler returns: the catalog it leaves and what it did.
Return(kind, target, path, sub, value, ret, bs) ==
    /\ books' = bs
    /\ lastOp' = [kind |-> kind, target |-> target, path |-> path,
                  sub |-> sub, value |-> value, ret |-> ret]
    /\ ops' = ops + 1
    /\ UNCHANGED <<pc, exit_code, files, printed, commands, render>>

\* The numbers the main menu prompt and the two edit sub-menus can return.
MenuAnswers == NumberAnswers(5)

SimpleChoiceAnswers == NumberAnswers(8)

MultiChoiceAnswers == NumberAnswers(4)

\* No catalog of a session has more nodes than this: the largest catalog
\* loaded, plus one book with all its parts for every operation.
MostNodes ==
    LET Largest(S) == CHOOSE n \in S : \A m \in S : m <= n IN
    Largest({NodeCount(c) : c \in LoadableCatalogs})
      + MaxOps * (Largest(NumPartsAnswers) + 1)

\* What the prompt "Enter the number of the book to edit" can return when
\* the user types numbers up to top, tabulated.
SelectionAnswers == [top \in 0..(MostNodes + 1) |-> NumberAnswers(top)]

\* manager.books.insert(0, new_book)
insert_book_first(bs, new_book) == <<new_book>> \o bs

\* manager.books.append(new_book)
append_book(bs, new_book) == Append(bs, new_book)

\* main(), choice 1: add_new_book, and the append when it returns a book.
AddNewBook ==
    /\ pc = "menu"
    /\ ops < MaxOps
    /\ 1 \in MenuAnswers
    /\ \E num_parts \in NumPartsAnswers, author \in AuthorAnswers,
          book_category \in CategoryAnswers, book_size \in SizeAnswers,
          language_code \in LanguageAnswers, add \in ConfirmAnswers :
          \E main_title \in IF num_parts = 1 THEN {<<>>} ELSE TitleAnswers,
             parts \in [1..num_parts -> PartAnswers] :
             LET book ==
                   IF num_parts = 1
                   THEN create_simple_book(author, book_category, book_size,
                                           language_code, parts[1].title,
                                           parts[1].page_count,
                                           parts[1].price)
                   ELSE create_multi_part_book(author, book_category,
                                               book_size, language_code,
                                               main_title, num_parts, parts)
             IN  IF add
                 THEN Return("add", 0, <<Len(books) + 1>>, num_parts, parts,
                             TRUE, append_book(books, book))
                 ELSE Return("add", 0, <<>>, num_parts, <<>>, FALSE, books)

\* _add_part_to_book(book), book being the node at `path`.
add_part_to_book(target, path) ==
    LET book       == NodeAt(books, path)
        first_part == get_first_leaf_book(book.data, 1)
    IN  \E use_existing \in
              IF first_part # <<>> THEN ConfirmAnswers ELSE {FALSE} :
        \E book_category \in
              IF use_existing THEN {first_part[1].book_category}
              ELSE CategoryAnswers,
           book_size \in
              IF use_existing THEN {first_part[1].book_size}
              ELSE SizeAnswers,
           language \in
              IF use_existing THEN {first_part[1].language}
              ELSE LanguageAnswers,
           part_title \in TitleAnswers,
           page_count \in PageCountAnswers,
           price \in PriceAnswers :
           Return("edit", target, path, 1, <<>>, TRUE,
                  ReplaceAt(books, path,
                      append_part(book,
                          new_part(book, book_category, book_size, language,
                                   part_title, page_count, price))))

\* _edit_multi_part_book(book), book being the node at `path`.
edit_multi_part_book(target, path) ==
    LET book == NodeAt(books, path) IN
    \E choice \in MultiChoiceAnswers :
       CASE choice = 0 ->
              Return("edit", target, path, choice, <<>>, FALSE, books)
         [] choice = 1 -> add_part_to_book(target, path)
         [] choice = 2 ->
              \E title \in TitleAnswers :
                 Return("edit", target, path, choice, title, TRUE,
                        ReplaceAt(books, path, [book EXCEPT !.title = title]))
         [] choice = 3 ->
              \E new_author \in AuthorAnswers :
                 Return("edit", target, path, choice, new_author, TRUE,
                        ReplaceAt(books, path,
                            [book EXCEPT
                                !.author = new_author,
                                !.data = update_author_recursively(
                                             @, new_author)]))
         [] OTHER -> Return("edit", target, path, choice, <<>>, FALSE, books)

\* _edit_simple_book(book), book being the node at `path`.
edit_simple_book(target, path) ==
    LET book == NodeAt(books, path) IN
    \E choice \in SimpleChoiceAnswers :
       LET Put(v, b) == Return("edit", target, path, choice, v, TRUE,
                               ReplaceAt(books, path, b))
       IN
       CASE choice = 0 ->
              Return("edit", target, path, choice, <<>>, FALSE, books)
         [] choice = 1 ->
              \E v \in AuthorAnswers : Put(v, [book EXCEPT !.author = v])
         [] choice = 2 ->
              \E v \in TitleAnswers : Put(v, [book EXCEPT !.title = v])
         [] choice = 3 ->
              \E v \in CategoryAnswers :
                 Put(v, [book EXCEPT !.book_category = v])
         [] choice = 4 ->
              \E v \in SizeAnswers : Put(v, [book EXCEPT !.book_size = v])
         [] choice = 5 ->
              \E v \in LanguageAnswers : Put(v, [book EXCEPT !.language = v])
         [] choice = 6 ->
              \E v \in PageCountAnswers :
                 Put(v, [book EXCEPT !.page_count = v])
         [] choice = 7 ->
              \E v \in PriceAnswers : Put(v, [book EXCEPT !.price = v])
         [] OTHER -> Return("edit", target, path, choice, <<>>, FALSE, books)

\* main(), choice 2: edit_book.  The user sees display_books() and types a
\* number.
EditBook ==
    /\ pc = "menu"
    /\ ops < MaxOps
    /\ 2 \in MenuAnswers
    /\ \E choice \in SelectionAnswers[NodeCount(books) + 1] :
          IF choice = 0
          THEN Return("edit", choice, <<>>, -1, <<>>, FALSE, books)
          ELSE LET book == find_book_by_index(books, choice)[1] IN
               IF book = <<>>
               THEN Return("edit", choice, <<>>, -1, <<>>, FALSE, books)
               ELSE IF HasData(NodeAt(books, book))
                    THEN edit_multi_part_book(choice, book)
                    ELSE edit_simple_book(choice, book)

\* main(), choice 3: display_books.
ViewBooks ==
    /\ pc = "menu"
    /\ ops < MaxOps
    /\ 3 \in MenuAnswers
    /\ Return("view", 0, <<>>, Len(display_books(books)), <<>>, TRUE, books)

\* main(), a choice that is no menu entry: "Invalid choice".
InvalidChoice ==
    /\ pc = "menu"
    /\ ops < MaxOps
    /\ \E choice \in MenuAnswers : choice > 4
    /\ Return("invalid", 0, <<>>, 0, <<>>, FALSE, books)

Next == AddNewBook \/ EditBook \/ ViewBooks \/ InvalidChoice

Spec == Init /\ [][Next]_vars

(***************************************************************************)
(* gen_table.py: sorting and rendering.  A row of the table is a record    *)
(* [class, cells]; cells holds the six values written between <td> and     *)
(* </td>.  _crawl and crawl yield the set of results a run can produce:    *)
(* empty when the run raises, more than one where round() meets a tie.     *)
(***************************************************************************)
\* languages: the label of every language code.
languages ==
    (<<101, 110, 103>> :> <<65, 110, 103, 108, 97, 105, 115>>) @@
    (<<102, 114, 97>> :> <<70, 114, 97, 110, 231, 97, 105, 115>>) @@
    (<<108, 97, 116>> :> <<76, 97, 116, 105, 110>>) @@
    (<<104, 101, 98>> :> <<72, 233, 98, 114, 101, 117>>) @@
    (<<>> :> <<80, 82, 79, 66, 76, 69, 77, 10, 10, 10>>)

\* fc.reduce(lambda x,y: x+y, l) for a list that is not empty.
accumulate_first_only(l) == l[1]

RECURSIVE accumulate(_)
accumulate(l) ==
    IF Len(l) = 1 THEN l[1]
    ELSE accumulate(SubSeq(l, 1, Len(l) - 1)) + l[Len(l)]

\* a < b for two str: the order of the first code point that differs, a
\* proper prefix coming first.
RECURSIVE str_lt(_, _)
str_lt(a, b) ==
    IF a = <<>> THEN b # <<>>
    ELSE IF b = <<>> THEN FALSE
    ELSE IF Head(a) # Head(b) THEN Head(a) < Head(b)
    ELSE str_lt(Tail(a), Tail(b))

\* sort_key(x)
sort_key(x) == x.title

\* x put before the items of the sorted list l that do not sort before it.
RECURSIVE insert_before_equal(_, _)
insert_before_equal(x, l) ==
    IF l = <<>> THEN <<x>>
    ELSE IF str_lt(sort_key(Head(l)), sort_key(x))
         THEN <<Head(l)>> \o insert_before_equal(x, Tail(l))
         ELSE <<x>> \o l

\* One step of sorted(): x, which follows the items of l in the input, is
\* put into the sorted list l before the first item that sorts after it.
RECURSIVE insert(_, _)
insert(x, l) ==
    IF l = <<>> THEN <<x>>
    ELSE IF str_lt(sort_key(x), sort_key(Head(l)))
         THEN <<x>> \o l
         ELSE <<Head(l)>> \o insert(x, Tail(l))

\* sorted(items, key = sort_key)
RECURSIVE sorted(_)
sorted(items) ==
    IF items = <<>> THEN <<>>
    ELSE insert(items[Len(items)], sorted(SubSeq(items, 1, Len(items) - 1)))

\* sort(items) that leaves the parts of items as they are.
sort_top_only(items) == items

\* sort(items), the inner function of _sort_data: the dictionary it is
\* given, with the list under "data" replaced.
RECURSIVE sort(_)
sort(items) ==
    IF HasData(items)
    THEN [items EXCEPT !.data = sorted([i \in DOMAIN @ |-> sort(@[i])])]
    ELSE items

\* What _sort_data(data) returns.
_sort_data(data) == sorted([i \in DOMAIN data |-> sort(data[i])])

\* The list _sort_data(data) was given, once it has returned: sort() has
\* assigned to the "data" key of the dictionaries the list holds.
sort_data_argument(data) == [i \in DOMAIN data |-> sort(data[i])]

\* padding, in _title
padding == 4

\* title.rjust(len(title) + padding * lvl, NO-BREAK SPACE)
_title(title, lvl) == [i \in 1..(padding * lvl) |-> 160] \o title

\* round(number, 2) that returns number.
round_not_at_all(number, ndigits) == {number}

\* round(number, ndigits) for a number of thousandths and ndigits = 2: the
\* nearest multiple of ten thousandths.  Python rounds the binary value of
\* the float, which lies on either side of a decimal tie (round(0.005, 2)
\* is 0.01, round(2.675, 2) is 2.67): at a tie both neighbours are
\* outcomes.
round(number, ndigits) ==
    LET r     == number % 10
        below == number - r
    IN  IF r = 0 THEN {number}
        ELSE IF r < 5 THEN {below}
        ELSE IF r > 5 THEN {below + 10}
        ELSE {below, below + 10}

\* The tables of the results l, one after the other.
RECURSIVE tables(_)
tables(l) == IF l = <<>> THEN <<>> ELSE Head(l).table \o tables(Tail(l))

RECURSIVE _crawl(_, _)
RECURSIVE crawl_lines(_, _, _)

\* lines = [ _crawl(x,lvl+1) for x in item["data"] ], from the i-th item on.
crawl_lines(data, i, lvl) ==
    IF i > Len(data) THEN {<<>>}
    ELSE {<<first>> \o rest :
             first \in _crawl(data[i], lvl),
             rest \in crawl_lines(data, i + 1, lvl)}

\* _crawl(item, lvl).  No result: accumulate raises TypeError on an empty
\* list, languages[...] raises KeyError on a code it does not hold.
_crawl(item, lvl) ==
    IF HasData(item)
    THEN IF item.data = <<>> THEN {}
         ELSE UNION {
                LET pages == accumulate([i \in DOMAIN lines |-> lines[i].pages])
                IN  {[table |-> <<[class |-> "table-info",
                                   cells |-> <<_title(item.title, lvl),
                                               item.author, <<47>>, <<47>>,
                                               price, pages>>]>>
                                  \o tables(lines),
                      price |-> price,
                      pages |-> pages] :
                        price \in round(accumulate([i \in DOMAIN lines |->
                                                      lines[i].price]), 2)} :
                lines \in crawl_lines(item.data, 1, lvl + 1)}
    ELSE IF item.language \notin DOMAIN languages THEN {}
         ELSE {[table |-> <<[class |-> "table-light",
                             cells |-> <<_title(item.title, lvl), item.author,
                                         item.book_size,
                                         languages[item.language],
                                         item.price, item.page_count>>]>>,
                price |-> item.price,
                pages |-> item.page_count]}

\* crawl(data): the rows of <tbody>, from the i-th item of data on.
RECURSIVE crawl_from(_, _)
crawl_from(data, i) ==
    IF i > Len(data) THEN {<<>>}
    ELSE {first.table \o rest :
             first \in _crawl(data[i], 0), rest \in crawl_from(data, i + 1)}

crawl(data) == crawl_from(data, 1)

\* page.format(table=table, ...): the page that holds the table.  The date
\* of the data file, which the page shows too, is left out.
page_format(table) == [table |-> table]

\* gen_page that writes the table to the data file too.
gen_page_writes_data(fs, table) ==
    [fs EXCEPT !["data.txt"] = File(table), !["out.html"] = File(page_format(table))]

\* with open("out.html",'w') as f: f.write(page)
gen_page_writes(fs, table) ==
    [fs EXCEPT !["out.html"] = File(page_format(table))]

\* A run of gen_table.py over the files fs: its exit code and the files it
\* leaves.  An exception raised in gen_page ends the run with exit code 1.
gen_page(fs) ==
    LET f      == fs["data.txt"]
        loaded == json_load(f.text)
        raised == {[returncode |-> 1, files |-> fs]}
    IN  IF ~f.exists \/ ~loaded.ok THEN raised
        ELSE IF crawl(_sort_data(loaded.val)) = {} THEN raised
        ELSE {[returncode |-> 0, files |-> gen_page_writes(fs, table)] :
                 table \in crawl(_sort_data(loaded.val))}

(***************************************************************************)
(* gen_table.py run on its own, statement by statement, over the data      *)
(* files of a bounded set of catalogs.                                     *)
(***************************************************************************)
\* Number of parts of a series of books.
MaxParts == 2

\* The sequences of lo..hi items of the set S.
Lists(S, lo, hi) == UNION {[1..k -> S] : k \in lo..hi}

\* A book of title `title`: a price that is no whole number of cents shows
\* where round() acts.
RenderLeaf(title, page_count, price) ==
    create_simple_book(<<65>>, BOOK_CATEGORIES[1], BOOK_SIZES[6], LANGUAGES_keys[2], title, page_count, price)

RenderLeaves ==
    {RenderLeaf(<<97>>, 2, 3), RenderLeaf(<<66>>, 3, 3), RenderLeaf(<<66>>, 5, 5)}

RenderSeries(parts) == [author |-> <<65>>, title |-> <<66, 97>>, data |-> parts]

\* Series of books, a series without any part among them.
FlatSeries == {RenderSeries(p) : p \in Lists(RenderLeaves, 0, MaxParts)}

\* Series of one or two books or series.
NestedSeries ==
    {RenderSeries(p) : p \in Lists(RenderLeaves \cup FlatSeries, 1, 2)}

\* The language codes a book of the data file can carry: the codes of the
\* table, no code, and a code the table does not hold ("spa").
LanguageCodes == DOMAIN languages \cup {<<115, 112, 97>>}

LanguageLeaf(code) ==
    create_simple_book(<<65>>, BOOK_CATEGORIES[1], BOOK_SIZES[6], code, <<97>>, 2, 3)

\* Data files of one book, alone or as the part of a series, for each code.
LanguageInputs ==
    {<<LanguageLeaf(c)>> : c \in LanguageCodes}
      \cup {<<RenderSeries(<<LanguageLeaf(c)>>)>> : c \in LanguageCodes}

RenderInputs ==
    {<<>>}
      \cup {<<t>> : t \in RenderLeaves \cup FlatSeries \cup NestedSeries}
      \cup ((RenderLeaves \cup FlatSeries) \X (RenderLeaves \cup FlatSeries))
      \cup LanguageInputs

RenderInit ==
    /\ books = <<>>
    /\ lastOp = [kind |-> "none", target |-> 0, path |-> <<>>, sub |-> 0,
                 value |-> <<>>, ret |-> FALSE]
    /\ ops = 0
    /\ pc = "start"
    /\ exit_code = <<>>
    /\ files \in {Files(File(json_dump(c)), NoFile) : c \in RenderInputs}
    /\ printed = <<>>
    /\ commands = <<>>
    /\ render = [stage |-> "start", input |-> <<>>, data |-> <<>>,
                 table |-> <<>>]

\* json.loads(f.read()): the list _sort_data is about to be given.
ReadData ==
    /\ render.stage = "start"
    /\ LET f      == files["data.txt"]
           loaded == json_load(f.text)
       IN  IF f.exists /\ loaded.ok
           THEN render' = [render EXCEPT !.stage = "loaded",
                                         !.input = loaded.val]
           ELSE render' = [render EXCEPT !.stage = "raised"]
    /\ UNCHANGED <<books, lastOp, ops, pc, exit_code, files, printed, commands>>

\* data=_sort_data(...): `input` is the list the call was given, as the
\* call leaves it.
SortData ==
    /\ render.stage = "loaded"
    /\ render' = [render EXCEPT !.stage = "sorted",
                                !.input = sort_data_argument(@),
                                !.data = _sort_data(render.input)]
    /\ UNCHANGED <<books, lastOp, ops, pc, exit_code, files, printed, commands>>

\* table = crawl(data)
Crawl ==
    /\ render.stage = "sorted"
    /\ IF crawl(render.data) = {}
       THEN render' = [render EXCEPT !.stage = "raised"]
       ELSE \E table \in crawl(render.data) :
               render' = [render EXCEPT !.stage = "crawled", !.table = table]
    /\ UNCHANGED <<books, lastOp, ops, pc, exit_code, files, printed, commands>>

\* f.write(page)
WritePage ==
    /\ render.stage = "crawled"
    /\ files' = gen_page_writes(files, render.table)
    /\ render' = [render EXCEPT !.stage = "written"]
    /\ UNCHANGED <<books, lastOp, ops, pc, exit_code, printed, commands>>

RenderNext == ReadData \/ SortData \/ Crawl \/ WritePage

RenderSpec == RenderInit /\ [][RenderNext]_vars

(***************************************************************************)
(* manage_books.py from its start: BookManager() loads the data file, the  *)
(* menu loop runs, and the program ends at sys.exit.  Choice 4 is taken    *)
(* in steps: save_books, run_gen_table, the two prompts, commit_and_push.  *)
(***************************************************************************)
\* Number of handlers run between the load and the exit.
MaxSessionOps == 1

\* "{invalid json content", and a catalog whose text was cut short.
MalformedTexts ==
    {<<Tok("{", <<>>), Tok("str", <<105, 110, 118, 97, 108, 105, 100>>)>>,
     SubSeq(json_dump(SampleCatalog), 1, Len(json_dump(SampleCatalog)) - 1)}

\* A file that holds one book, its keys in another order than json.dump
\* writes them in, the price without a fraction.
ReorderedText ==
    LET Member(key, t, v) == <<Tok("str", KeyText[key]), Tok(":", <<>>), Tok(t, v)>>
        Comma == <<Tok(",", <<>>)>>
    IN  <<Tok("[", <<>>), Tok("{", <<>>)>>
          \o Member("title", "str", <<90>>) \o Comma
          \o Member("price", "num", <<57>>) \o Comma
          \o Member("page_count", "num", <<49, 50>>) \o Comma
          \o Member("language", "str", LANGUAGES_keys[1]) \o Comma
          \o Member("book_size", "str", BOOK_SIZES[1]) \o Comma
          \o Member("book_category", "str", BOOK_CATEGORIES[1]) \o Comma
          \o Member("author", "str", <<89>>)
          \o <<Tok("}", <<>>), Tok("]", <<>>)>>

\* What the data file can be when the program starts.
DataFiles ==
    {NoFile} \cup {File(t) : t \in MalformedTexts \cup {ReorderedText}}
      \cup {File(json_dump(c)) : c \in LoadableCatalogs}

SessionInit ==
    /\ books = <<>>
    /\ lastOp = [kind |-> "none", target |-> 0, path |-> <<>>, sub |-> 0,
                 value |-> <<>>, ret |-> FALSE]
    /\ ops = 0
    /\ pc = "start"
    /\ exit_code = <<>>
    /\ files \in {Files(d, NoFile) : d \in DataFiles}
    /\ printed = <<>>
    /\ commands = <<>>
    /\ render = NotRendering

\* sys.exit(code) after the line `text` has been printed.
Exit(text, code) ==
    /\ printed' = Append(printed, Message(text, 0))
    /\ pc' = "exited"
    /\ exit_code' = <<code>>

\* load_books that goes on with an empty catalog when it cannot read the
\* file.
load_books_lenient(fs) ==
    LET loaded == json_load(fs["data.txt"].text) IN
    IF fs["data.txt"].exists /\ loaded.ok
    THEN [raised |-> "", books |-> loaded.val]
    ELSE [raised |-> "", books |-> <<>>]

\* load_books: the exception open() or json.load raises ("" for none) and
\* the catalog read.
load_books(fs) ==
    LET loaded == json_load(fs["data.txt"].text) IN
    IF ~fs["data.txt"].exists
    THEN [raised |-> "FileNotFoundError", books |-> <<>>]
    ELSE IF ~loaded.ok
         THEN [raised |-> "JSONDecodeError", books |-> <<>>]
         ELSE [raised |-> "", books |-> loaded.val]

\* BookManager(): self.books = [] and load_books().
LoadBooks ==
    /\ pc = "start"
    /\ LET loaded == load_books(files) IN
       /\ lastOp' = [lastOp EXCEPT !.kind = "load", !.ret = loaded.raised = ""]
       /\ IF loaded.raised = ""
          THEN /\ books' = loaded.books
               /\ printed' = Append(printed,
                      Message("Loaded book entries", Len(loaded.books)))
               /\ pc' = "menu"
               /\ UNCHANGED exit_code
          ELSE /\ Exit(IF loaded.raised = "FileNotFoundError"
                       THEN "Error: not found" ELSE "Error: Invalid JSON", 1)
               /\ UNCHANGED books
    /\ UNCHANGED <<ops, files, commands, render>>

\* main(), choices 1, 2, 3 and the invalid ones.
SessionMenu == ops < MaxSessionOps /\ Next

\* main(), choice 0.
ExitWithoutSaving ==
    /\ pc = "menu"
    /\ 0 \in MenuAnswers
    /\ Exit("Exiting without saving.", 0)
    /\ lastOp' = [kind |-> "exit", target |-> 0, path |-> <<>>, sub |-> 0,
                  value |-> <<>>, ret |-> TRUE]
    /\ UNCHANGED <<books, ops, files, commands, render>>

\* What open(self.data_file, "w") and json.dump can do: write the whole
\* text, fail to open the file, or fail after the file was emptied and k
\* tokens were written.
SaveOutcomes(text) ==
    {[raised |-> FALSE, written |-> Len(text)]}
      \cup {[raised |-> TRUE, written |-> k] : k \in {-1, 0, Len(text) - 1}}

\* save_books that takes a failed write for a success.
save_books_ignores_failure(fs, bs, outcome) ==
    [raised |-> FALSE,
     files |-> IF outcome.written < 0 THEN fs
               ELSE [fs EXCEPT !["data.txt"] =
                        File(SubSeq(json_dump(bs), 1, outcome.written))]]

\* save_books: whether it raised, and the files it leaves.
save_books(fs, bs, outcome) ==
    [raised |-> outcome.raised,
     files |-> IF outcome.written < 0 THEN fs
               ELSE [fs EXCEPT !["data.txt"] =
                        File(SubSeq(json_dump(bs), 1, outcome.written))]]

\* main(), choice 4: manager.save_books()
SaveBooks ==
    /\ pc = "menu"
    /\ 4 \in MenuAnswers
    /\ \E outcome \in SaveOutcomes(json_dump(books)) :
          LET saved == save_books(files, books, outcome) IN
          /\ files' = saved.files
          /\ IF saved.raised
             THEN Exit("Error saving data", 1)
             ELSE /\ printed' = Append(printed,
                         Message("Data saved successfully", 0))
                  /\ pc' = "gen_table"
                  /\ UNCHANGED exit_code
    /\ lastOp' = [kind |-> "save", target |-> 0, path |-> <<>>, sub |-> 0,
                  value |-> <<>>, ret |-> FALSE]
    /\ UNCHANGED <<books, ops, commands, render>>

\* A subprocess that was run: its command line, what subprocess.run did
\* (outcome) and the exit code, stdout and stderr reported for it.
Ran(cmd, outcome, result) ==
    [cmd |-> cmd, outcome |-> outcome, exit_code |-> result.exit_code,
     stdout |-> result.stdout, stderr |-> result.stderr]

\* What subprocess.run can do: return with an exit code and the output of
\* the command, raise TimeoutExpired, raise another exception (stderr then
\* holds the text of the exception).
RunOutcomes ==
    {[kind |-> "exit", returncode |-> 0, stdout |-> "done", stderr |-> ""],
     [kind |-> "exit", returncode |-> 1, stdout |-> "", stderr |-> "fatal"],
     [kind |-> "timeout", returncode |-> 0, stdout |-> "", stderr |-> ""],
     [kind |-> "error", returncode |-> 0, stdout |-> "",
      stderr |-> "No such file or directory"]}

\* run_gen_table that takes every run for a success.
run_gen_table_always_true(outcome) ==
    [ret |-> TRUE,
     ran |-> Ran("gen_table.py", outcome,
                 [exit_code |-> outcome.returncode, stdout |-> "",
                  stderr |-> ""])]

\* run_gen_table: what it returns; -1 stands for a run that gave no exit
\* code.
run_gen_table(outcome) ==
    IF outcome.kind = "exit"
    THEN [ret |-> outcome.returncode = 0,
          ran |-> Ran("gen_table.py", outcome,
                      [exit_code |-> outcome.returncode, stdout |-> "",
                       stderr |-> ""])]
    ELSE [ret |-> FALSE,
          ran |-> Ran("gen_table.py", outcome,
                      [exit_code |-> -1, stdout |-> "", stderr |-> ""])]

\* main(), choice 4: run_gen_table(gen_table_path).  The script runs over
\* the files, or fails for a reason of its own (exit code 1), or does not
\* end in time, or cannot be started.
RunGenTable ==
    /\ pc = "gen_table"
    /\ \E run \in gen_page(files) \cup {[returncode |-> 1, files |-> files]},
          kind \in {"exit", "timeout", "error"} :
          LET result == run_gen_table(
                  [kind |-> kind,
                   returncode |-> IF kind = "exit" THEN run.returncode ELSE 0,
                   stdout |-> "", stderr |-> ""]) IN
          /\ files' = IF kind = "exit" THEN run.files ELSE files
          /\ commands' = Append(commands, result.ran)
          /\ IF result.ret
             THEN /\ printed' = Append(printed,
                         Message("Table generated successfully!", 0))
                  /\ pc' = "confirm"
                  /\ UNCHANGED exit_code
             ELSE Exit("gen_table.py failed. Changes NOT committed or pushed.", 0)
    /\ UNCHANGED <<books, lastOp, ops, render>>

\* What the user types at "Enter commit message".
TypedMessage == {<<>>, <<32, 102, 105, 120, 32>>}

MessageAnswers ==
    Returned({get_text_input(a, TRUE) : a \in Attempts(TypedMessage)})

\* "Update book database"
DefaultMessage ==
    <<85, 112, 100, 97, 116, 101, 32, 98, 111, 111, 107, 32, 100, 97, 116,
      97, 98, 97, 115, 101>>

\* main(), choice 4: ui.confirm("Commit and push changes?") and the prompt
\* for the commit message.
ConfirmCommit ==
    /\ pc = "confirm"
    /\ \E yes \in ConfirmAnswers :
          IF yes
          THEN \E commit_msg \in MessageAnswers :
                  /\ lastOp' = [lastOp EXCEPT !.value =
                        IF commit_msg = <<>> THEN DefaultMessage ELSE commit_msg]
                  /\ pc' = "git"
                  /\ UNCHANGED <<printed, exit_code>>
          ELSE /\ Exit("Changes saved but not committed.", 0)
               /\ UNCHANGED lastOp
    /\ UNCHANGED <<books, ops, files, commands, render>>

\* run_command that takes a command that timed out for one that ended.
run_command_ignores_timeout(outcome) ==
    IF outcome.kind = "error"
    THEN [exit_code |-> -1, stdout |-> "", stderr |-> outcome.stderr]
    ELSE [exit_code |-> outcome.returncode, stdout |-> outcome.stdout,
          stderr |-> outcome.stderr]

\* run_command: the tuple (exit_code, stdout, stderr) it returns.
run_command(outcome) ==
    CASE outcome.kind = "exit" ->
           [exit_code |-> outcome.returncode, stdout |-> outcome.stdout,
            stderr |-> outcome.stderr]
      [] outcome.kind = "timeout" ->
           [exit_code |-> -1, stdout |-> "", stderr |-> "Command timed out"]
      [] OTHER ->
           [exit_code |-> -1, stdout |-> "", stderr |-> outcome.stderr]

\* commit_and_push that runs the three commands whatever they return.
commit_and_push_runs_all(commit_message, outcomes) ==
    LET add    == run_command(outcomes[1])
        commit == run_command(outcomes[2])
        push   == run_command(outcomes[3])
    IN  [ran |-> <<Ran("git add data.txt", outcomes[1], add),
                   Ran("git commit -m", outcomes[2], commit),
                   Ran("git push", outcomes[3], push)>>,
         printed |-> <<>>,
         ret |-> add.exit_code = 0 /\ commit.exit_code = 0 /\ push.exit_code = 0]

\* commit_and_push(commit_message): the commands it ran, the lines it
\* printed and what it returns.  outcomes[i] is what subprocess.run does
\* with the i-th command if it is run.
commit_and_push(commit_message, outcomes) ==
    LET add    == run_command(outcomes[1])
        commit == run_command(outcomes[2])
        push   == run_command(outcomes[3])
    IN  IF add.exit_code # 0
        THEN [ran |-> <<Ran("git add data.txt", outcomes[1], add)>>,
              printed |-> <<Message("Error staging file", 0)>>,
              ret |-> FALSE]
        ELSE IF commit.exit_code # 0
        THEN [ran |-> <<Ran("git add data.txt", outcomes[1], add),
                        Ran("git commit -m", outcomes[2], commit)>>,
              printed |-> <<Message("File staged successfully.", 0),
                            Message("Error committing", 0)>>,
              ret |-> FALSE]
        ELSE IF push.exit_code # 0
        THEN [ran |-> <<Ran("git add data.txt", outcomes[1], add),
                        Ran("git commit -m", outcomes[2], commit),
                        Ran("git push", outcomes[3], push)>>,
              printed |-> <<Message("File staged successfully.", 0),
                            Message("Commit successful.", 0),
                            Message("Error pushing", 0)>>,
              ret |-> FALSE]
        ELSE [ran |-> <<Ran("git add data.txt", outcomes[1], add),
                        Ran("git commit -m", outcomes[2], commit),
                        Ran("git push", outcomes[3], push)>>,
              printed |-> <<Message("File staged successfully.", 0),
                            Message("Commit successful.", 0),
                            Message("Push successful.", 0)>>,
              ret |-> TRUE]

\* main(), choice 4: git_mgr.commit_and_push(commit_msg), the line printed
\* after it, and sys.exit(0).
CommitAndPush ==
    /\ pc = "git"
    /\ \E outcomes \in [1..3 -> RunOutcomes] :
          LET done == commit_and_push(lastOp.value, outcomes) IN
          /\ commands' = commands \o done.ran
          /\ printed' = Append(printed \o done.printed,
                 Message("All operations completed successfully!", 0))
          /\ lastOp' = [lastOp EXCEPT !.ret = done.ret]
    /\ pc' = "exited"
    /\ exit_code' = <<0>>
    /\ UNCHANGED <<books, ops, files, render>>

SessionNext ==
    \/ LoadBooks
    \/ SessionMenu
    \/ ExitWithoutSaving
    \/ SaveBooks
    \/ RunGenTable
    \/ ConfirmCommit
    \/ CommitAndPush

SessionSpec == SessionInit /\ [][SessionNext]_vars



(***************************************************************************)
(* Tree Navigator                                                          *)
(***************************************************************************)
\* C1: for every n in 1..N, N the number of nodes of the catalog,
\* find_book_by_index(books, n) is the n-th node of the pre-order walk of
\* the forest, and distinct n give distinct nodes.
C1_FindIsPreOrder ==
    LET N == NodeCount(books) IN
    /\ \A n \in 1..N : find_book_by_index(books, n)[1] = Walk(books)[n]
    /\ \A m, n \in 1..N :
          m # n => find_book_by_index(books, m)[1]
                     # find_book_by_index(books, n)[1]

\* edit_book resolved a number to a node two levels below the roots, and
\* another root follows the interior that holds it.
C1_Witness ==
    /\ lastOp.kind = "edit"
    /\ Len(lastOp.path) = 3
    /\ lastOp.target > 2
    /\ Len(books) > lastOp.path[1]

\* The numbers that are no node's number: 0, the negative ones and those
\* beyond the number of nodes.
OutOfRange(bs) ==
    ((0 - NodeCount(bs) - 1)..0)
        \cup ((NodeCount(bs) + 1)..(NodeCount(bs) + 2))

\* C2: find_book_by_index returns None for n = 0, n < 0 and n > N, and an
\* edit_book whose number resolves to no node leaves the catalog as it was.
C2_NotFoundOutOfRange ==
    [][/\ \A n \in OutOfRange(books) :
             find_book_by_index(books, n)[1] = <<>>
       /\ \A n \in OutOfRange(books') :
             find_book_by_index(books', n)[1] = <<>>
       /\ (lastOp'.kind = "edit" /\ lastOp'.path = <<>>) => books' = books
      ]_vars

\* edit_book was given a number beyond the last node of a catalog that has
\* nested parts.
C2_Witness ==
    /\ lastOp.kind = "edit"
    /\ lastOp.target > NodeCount(books)
    /\ lastOp.path = <<>>
    /\ ~lastOp.ret
    /\ \E p \in Paths(books) : Len(p) > 1

\* C3: the number display_books shows next to a node is the number that
\* find_book_by_index resolves to that node.
C3_DisplayedNumberSelects ==
    \A k \in 1..Len(display_books(books)) :
       find_book_by_index(books, display_books(books)[k].number)[1]
          = display_books(books)[k].node


(***************************************************************************)
(* Mutator                                                                 *)
(***************************************************************************)
\* lastOp is an edit of the multi-part book at lastOp.path, sub-menu choice
\* `sub`.
MultiPartEdit(op, bs, sub) ==
    /\ op.kind = "edit"
    /\ op.path # <<>>
    /\ op.sub = sub
    /\ HasData(NodeAt(bs, op.path))

RECURSIVE AuthorEverywhere(_, _)
AuthorEverywhere(node, a) ==
    /\ node.author = a
    /\ HasData(node) =>
          \A i \in DOMAIN node.data : AuthorEverywhere(node.data[i], a)

\* C4: after the author of an interior was renamed to A (sub-menu choice
\* 3), the interior and every descendant of it, at any depth, has author A.
C4_RenameReachesEveryDescendant ==
    MultiPartEdit(lastOp, books, 3) =>
        AuthorEverywhere(NodeAt(books, lastOp.path), lastOp.value)

\* The renamed interior holds an interior with parts of its own.
C4_Witness ==
    /\ MultiPartEdit(lastOp, books, 3)
    /\ \E i \in DOMAIN NodeAt(books, lastOp.path).data :
          HasData(NodeAt(books, lastOp.path).data[i])

\* C5: adding a part to an interior makes its list of parts one longer,
\* with the new leaf last and the previous parts as they were, in order.
C5_AddPartAppends ==
    [][MultiPartEdit(lastOp', books, 1) =>
          LET old == NodeAt(books, lastOp'.path).data
              new == NodeAt(books', lastOp'.path).data
          IN  /\ Len(new) = Len(old) + 1
              /\ SubSeq(new, 1, Len(old)) = old
              /\ ~HasData(new[Len(new)])
              /\ new[Len(new)].title \in TitleAnswers
              /\ new[Len(new)].page_count \in PageCountAnswers
              /\ new[Len(new)].price \in PriceAnswers
      ]_vars

\* A part was added to a nested interior that already had two parts.
C5_Witness ==
    /\ MultiPartEdit(lastOp, books, 1)
    /\ Len(lastOp.path) > 1
    /\ Len(NodeAt(books, lastOp.path).data) >= 3

\* C6: the leaf appended by _add_part_to_book has the author of the
\* interior it was added to.
C6_NewPartHasParentAuthor ==
    MultiPartEdit(lastOp, books, 1) =>
        LET book == NodeAt(books, lastOp.path) IN
        book.data[Len(book.data)].author = book.author

\* A part was added to an interior whose first leaf has another author
\* than the interior.
C6_Witness ==
    /\ MultiPartEdit(lastOp, books, 1)
    /\ LET book == NodeAt(books, lastOp.path) IN
       get_first_leaf_book(book.data, 1)[1].author # book.author

\* C7: a confirmed new book is appended to the roots: one more root, the
\* new one last, the previous roots at their positions; a book declined at
\* the confirmation is not added.
C7_AddBookAppendsRoot ==
    [][lastOp'.kind = "add" =>
          IF lastOp'.ret
          THEN /\ Len(books') = Len(books) + 1
               /\ SubSeq(books', 1, Len(books)) = books
               /\ lastOp'.path = <<Len(books')>>
               /\ HasData(books'[Len(books')]) <=> lastOp'.sub > 1
          ELSE books' = books
      ]_vars

\* A multi-part book was added after two other roots.
C7_Witness ==
    /\ lastOp.kind = "add"
    /\ lastOp.ret
    /\ Len(books) >= 3
    /\ HasData(books[Len(books)])

\* C8: no operation removes a node: every node of the catalog is, after any
\* operation, still at its place under the same parent and of the same
\* variant, and the number of nodes does not decrease.
C8_NoNodeRemoved ==
    [][/\ NodeCount(books') >= NodeCount(books)
       /\ \A p \in Paths(books) :
             /\ p \in Paths(books')
             /\ HasData(NodeAt(books', p)) <=> HasData(NodeAt(books, p))
      ]_vars

\* Two operations ran, the last one an edit that added a part to a book
\* that had parts.
C8_Witness ==
    /\ ops = 2
    /\ MultiPartEdit(lastOp, books, 1)
    /\ Len(NodeAt(books, lastOp.path).data) >= 3
    /\ NodeCount(books) >= 6

(***************************************************************************)
(* Invariants of the data model                                            *)
(***************************************************************************)
LeafKeys ==
    {"author", "book_category", "book_size", "language", "page_count",
     "price", "title"}

RECURSIVE WellFormed(_)
WellFormed(node) ==
    IF HasData(node)
    THEN /\ DOMAIN node = {"author", "title", "data"}
         /\ Len(node.data) >= 1
         /\ \A i \in DOMAIN node.data : WellFormed(node.data[i])
    ELSE DOMAIN node = LeafKeys

\* C9: every node of the catalog is a leaf with the seven leaf keys and no
\* "data", or an interior with a non-empty "data".
C9_CatalogWellFormed == \A i \in DOMAIN books : WellFormed(books[i])

\* A book of several parts was added and then got one more part.
C9_Witness ==
    /\ MultiPartEdit(lastOp, books, 1)
    /\ lastOp.path = <<Len(books)>>
    /\ Len(books) >= 3
    /\ Len(books[Len(books)].data) >= 3

RECURSIVE ValidValues(_)
ValidValues(node) ==
    /\ node.author # <<>>
    /\ node.title # <<>>
    /\ IF HasData(node)
       THEN \A i \in DOMAIN node.data : ValidValues(node.data[i])
       ELSE /\ node.page_count \in Nat
            /\ node.page_count >= 1
            /\ node.price >= 0

\* C10: every page count in a leaf is an integer >= 1, every price is >= 0
\* and no author or title is empty: the values the prompts of the create,
\* add-part and edit flows write are the validated ones.
C10_OnlyValidatedValues == \A i \in DOMAIN books : ValidValues(books[i])

\* A page count or a price was entered in an edit, and the catalog holds a
\* book created in the session.
C10_Witness ==
    /\ lastOp.kind = "edit"
    /\ lastOp.path # <<>>
    /\ ~HasData(NodeAt(books, lastOp.path))
    /\ \/ lastOp.sub = 6 /\ NodeAt(books, lastOp.path).page_count = 1
       \/ lastOp.sub = 7 /\ NodeAt(books, lastOp.path).price = 0
    /\ \E i \in DOMAIN books :
          books[i].author \in AuthorAnswers /\ books[i].title \in TitleAnswers

(***************************************************************************)
(* Aggregator                                                              *)
(***************************************************************************)
\* The rendering has produced its table: row k is the row of the k-th node
\* of the pre-order walk of the sorted forest.
Crawled == render.stage \in {"crawled", "written"}

\* The price and the pages shown in a row.
PriceCell(row) == row.cells[5]

PagesCell(row) == row.cells[6]

\* The positions in the walk of the parts of the node at position k.
PartsOf(walk, k) ==
    {j \in DOMAIN walk :
        /\ Len(walk[j]) = Len(walk[k]) + 1
        /\ SubSeq(walk[j], 1, Len(walk[k])) = walk[k]}

\* The positions in the walk of the books (leaves) below the node at
\* position k.
BooksBelow(bs, walk, k) ==
    {j \in DOMAIN walk :
        /\ Len(walk[j]) > Len(walk[k])
        /\ SubSeq(walk[j], 1, Len(walk[k])) = walk[k]
        /\ ~HasData(NodeAt(bs, walk[j]))}

\* The sum of f over the set S.
RECURSIVE TotalOf(_, _)
TotalOf(S, f) ==
    IF S = {} THEN 0
    ELSE LET x == CHOOSE y \in S : TRUE IN f[x] + TotalOf(S \ {x}, f)

\* C11: in the table _crawl builds, the price of a book is its own price,
\* and the price of a series is the sum of the prices computed for its
\* parts, rounded to two decimals (a whole number of cents, nearest to the
\* sum); this holds at every level, so that an outer series adds up the
\* rounded totals of the series it holds.
C11_PriceRoundedAtEveryLevel ==
    Crawled =>
      LET walk   == Walk(render.data)
          prices == [k \in DOMAIN render.table |-> PriceCell(render.table[k])]
      IN  /\ Len(render.table) = Len(walk)
          /\ \A k \in DOMAIN walk :
                IF HasData(NodeAt(render.data, walk[k]))
                THEN LET total == TotalOf(PartsOf(walk, k), prices) IN
                     /\ prices[k] % 10 = 0
                     /\ prices[k] - total \in -5..5
                ELSE prices[k] = NodeAt(render.data, walk[k]).price

\* A series of two series was rendered, and its price is not the rounded
\* sum of the prices of its books: the inner totals were rounded first.
C11_Witness ==
    /\ Crawled
    /\ Len(render.data) = 1
    /\ HasData(render.data[1])
    /\ Len(render.data[1].data) = 2
    /\ \A i \in 1..2 : HasData(render.data[1].data[i])
    /\ LET walk  == Walk(render.data)
           books_price == [k \in DOMAIN walk |->
                             IF HasData(NodeAt(render.data, walk[k])) THEN 0
                             ELSE NodeAt(render.data, walk[k]).price]
       IN  PriceCell(render.table[1])
             - TotalOf(BooksBelow(render.data, walk, 1), books_price)
             \notin -5..5

\* C12: in the table _crawl builds, the pages of a book are its page_count
\* and the pages of a series are the sum, not rounded, of the page_count of
\* the books below it.
C12_PagesSumOfBooks ==
    Crawled =>
      LET walk == Walk(render.data)
          page_counts == [k \in DOMAIN walk |->
                            IF HasData(NodeAt(render.data, walk[k])) THEN 0
                            ELSE NodeAt(render.data, walk[k]).page_count]
      IN  \A k \in DOMAIN walk :
             PagesCell(render.table[k]) =
                IF HasData(NodeAt(render.data, walk[k]))
                THEN TotalOf(BooksBelow(render.data, walk, k), page_counts)
                ELSE page_counts[k]

\* A series that holds a book and a series of two books was rendered.
C12_Witness ==
    /\ Crawled
    /\ Len(render.data) = 1
    /\ HasData(render.data[1])
    /\ Len(render.data[1].data) = 2
    /\ \E j, l \in 1..2 :
          /\ ~HasData(render.data[1].data[j])
          /\ HasData(render.data[1].data[l])
          /\ Len(render.data[1].data[l].data) = 2
          /\ PagesCell(render.table[1])
               = render.data[1].data[j].page_count
                   + render.data[1].data[l].data[1].page_count
                   + render.data[1].data[l].data[2].page_count

(***************************************************************************)
(* Sorter                                                                  *)
(***************************************************************************)
\* _sort_data has returned.
Sorted == render.stage \in {"sorted", "crawled", "written"}

\* The catalog the data file holds: what _sort_data was given.
GivenData == json_load(files["data.txt"].text).val

\* Title a does not come after title b: at the first position where they
\* differ a has the smaller code point, or a is a prefix of b.
TitleLeq(a, b) ==
    LET differ == {i \in (DOMAIN a) \cap (DOMAIN b) : a[i] # b[i]} IN
    IF differ = {} THEN Len(a) <= Len(b)
    ELSE LET first == CHOOSE i \in differ : \A j \in differ : i <= j
         IN  a[first] < b[first]

\* The list l and the lists below it are in ascending order of title.
RECURSIVE LevelsAscending(_)
LevelsAscending(l) ==
    /\ \A i \in 1..(Len(l) - 1) : TitleLeq(l[i].title, l[i + 1].title)
    /\ \A i \in DOMAIN l : HasData(l[i]) => LevelsAscending(l[i].data)

\* The list b holds the nodes of the list a, in some order, each with the
\* nodes it had, in some order.
RECURSIVE SameNodes(_, _)
SameNodes(a, b) ==
    /\ Len(a) = Len(b)
    /\ \E p \in [DOMAIN a -> DOMAIN a] :
          /\ \A i, j \in DOMAIN a : i # j => p[i] # p[j]
          /\ \A i \in DOMAIN a :
                IF HasData(a[i])
                THEN /\ HasData(b[p[i]])
                     /\ a[i].author = b[p[i]].author
                     /\ a[i].title = b[p[i]].title
                     /\ SameNodes(a[i].data, b[p[i]].data)
                ELSE a[i] = b[p[i]]

\* C13: what _sort_data returns is, at every level, in ascending order of
\* title, and holds at every level exactly the nodes the input holds at
\* that level.
C13_SortedAtEveryLevel ==
    Sorted => LevelsAscending(render.data) /\ SameNodes(GivenData, render.data)

\* The data file holds two roots out of order, one of them a series whose
\* parts are out of order too.
C13_Witness ==
    /\ Sorted
    /\ Len(GivenData) = 2
    /\ ~TitleLeq(GivenData[1].title, GivenData[2].title)
    /\ \E i \in 1..2 :
          /\ HasData(GivenData[i])
          /\ Len(GivenData[i].data) = 2
          /\ ~TitleLeq(GivenData[i].data[1].title, GivenData[i].data[2].title)

\* The nodes of the list l whose title is t, in the order of l.
Titled(l, t) == SelectSeq(l, LAMBDA x : x.title = t)

\* At every level, the nodes of a that share a title are in b in the order
\* they have in a.
RECURSIVE KeepsOrderOfEqualTitles(_, _)
KeepsOrderOfEqualTitles(a, b) ==
    \A t \in {a[i].title : i \in DOMAIN a} :
       LET before == Titled(a, t)
           after  == Titled(b, t)
       IN  /\ Len(before) = Len(after)
           /\ \A i \in DOMAIN before :
                 IF HasData(before[i])
                 THEN /\ HasData(after[i])
                      /\ before[i].author = after[i].author
                      /\ KeepsOrderOfEqualTitles(before[i].data, after[i].data)
                 ELSE before[i] = after[i]

\* C14: the sort is stable: siblings with the same title are, in what
\* _sort_data returns, in the order they had in the input.
C14_SortIsStable == Sorted => KeepsOrderOfEqualTitles(GivenData, render.data)

\* A series of the data file holds two different books of the same title.
C14_Witness ==
    /\ Sorted
    /\ \E i \in DOMAIN GivenData :
          /\ HasData(GivenData[i])
          /\ Len(GivenData[i].data) = 2
          /\ ~HasData(GivenData[i].data[1])
          /\ ~HasData(GivenData[i].data[2])
          /\ GivenData[i].data[1].title = GivenData[i].data[2].title
          /\ GivenData[i].data[1] # GivenData[i].data[2]

\* C15: _sort_data does not change the tree it is given: after the call the
\* list it was given holds the roots in the order they had, and every
\* series in it holds its parts in the order they had.
C15_SortLeavesInputAsGiven == Sorted => render.input = GivenData

(***************************************************************************)
(* Rendering and the data file                                             *)
(***************************************************************************)
\* C16: no statement of gen_page changes the data file: after it the
\* catalog the file holds has the order it had, and find_book_by_index
\* resolves every number to the node it resolved to before.
C16_RenderingKeepsDataFile ==
    [][/\ files'["data.txt"] = files["data.txt"]
       /\ \A before \in {json_load(files["data.txt"].text).val},
             after \in {json_load(files'["data.txt"].text).val} :
             /\ after = before
             /\ \A n \in 0..(NodeCount(before) + 1) :
                   find_book_by_index(after, n) = find_book_by_index(before, n)
      ]_vars

\* The page was written for a data file whose catalog is not in ascending
\* order of title: the table shows another order than the file holds.
C16_Witness ==
    /\ render.stage = "written"
    /\ files["out.html"].exists
    /\ render.data # GivenData
    /\ NodeCount(GivenData) > 2

(***************************************************************************)
(* Loading and saving                                                      *)
(***************************************************************************)
\* The data file cannot be loaded: it is absent, or its text is not JSON.
Unloadable(f) == ~f.exists \/ f.text \in MalformedTexts

\* The number of top-level entries of a JSON text: the objects that open
\* inside the outermost array only.
TopLevelEntries(toks) ==
    LET Count(i, t) == Cardinality({j \in 1..(i - 1) : toks[j].t \in t})
        Depth(i) == Count(i, {"[", "{"}) - Count(i, {"]", "}"})
    IN  Cardinality({i \in DOMAIN toks : toks[i].t = "{" /\ Depth(i) = 1})

\* C17: when the data file is absent or is not valid JSON, loading ends the
\* program with exit status 1 and the catalog is never set; once the
\* program has exited no operation runs; a load that succeeds reports the
\* number of top-level entries of the file.
C17_LoadFailureIsFatal ==
    [][/\ pc # "exited"
       /\ pc = "start" =>
             IF Unloadable(files["data.txt"])
             THEN /\ pc' = "exited"
                  /\ exit_code' = <<1>>
                  /\ books' = <<>>
                  /\ commands' = <<>>
             ELSE /\ pc' = "menu"
                  /\ printed'[Len(printed')] =
                        Message("Loaded book entries",
                                TopLevelEntries(files["data.txt"].text))
      ]_vars

\* The program has exited with status 1 at the load of a file that exists.
C17_Witness ==
    /\ pc = "exited"
    /\ exit_code = <<1>>
    /\ lastOp.kind = "load"
    /\ files["data.txt"].exists

\* C18: when save_books fails to write the catalog, the program ends with
\* exit status 1, and neither gen_table.py nor a git command is run: a
\* subprocess is run only while the data file holds the whole catalog.
C18_SaveFailureIsFatal ==
    [][/\ pc # "exited"
       /\ (pc = "menu" /\ lastOp'.kind = "save"
             /\ files'["data.txt"] # File(json_dump(books)))
            => /\ pc' = "exited"
               /\ exit_code' = <<1>>
               /\ commands' = <<>>
       /\ commands' # commands
            => /\ exit_code = <<>>
               /\ files["data.txt"] = File(json_dump(books))
      ]_vars

\* After an edit, the save failed once part of the text was written.
C18_Witness ==
    /\ pc = "exited"
    /\ exit_code = <<1>>
    /\ lastOp.kind = "save"
    /\ ops > 0
    /\ files["data.txt"].text # <<>>
    /\ files["data.txt"] # File(json_dump(books))

\* The prices of the books of the list l.
RECURSIVE PricesIn(_)
PricesIn(l) ==
    UNION {IF HasData(l[i]) THEN PricesIn(l[i].data) ELSE {l[i].price} :
              i \in DOMAIN l}

\* C19: saving and loading are inverse: the file save_books wrote loads to
\* the catalog that was saved, and the catalog loaded from a file, saved
\* again, gives a file that loads to the same catalog.
C19_SaveLoadInverse ==
    /\ pc \in {"gen_table", "confirm", "git"}
          => json_load(files["data.txt"].text) = [ok |-> TRUE, val |-> books]
    /\ pc = "menu" => json_load(json_dump(books)) = [ok |-> TRUE, val |-> books]

\* A catalog that holds a series and a price with a fraction was saved
\* after an edit.
C19_Witness ==
    /\ pc = "gen_table"
    /\ ops > 0
    /\ \E i \in DOMAIN books : HasData(books[i])
    /\ \E p \in PricesIn(books) : p % 1000 # 0

(***************************************************************************)
(* Git                                                                     *)
(***************************************************************************)
\* The git commands run: the subprocesses after gen_table.py.
GitCommands == SubSeq(commands, 2, Len(commands))

\* C20: commit_and_push runs git add, git commit and git push in this
\* order, stops at the first that does not return 0, and returns True
\* exactly when all three returned 0.
C20_CommitAndPushStopsAtFailure ==
    (pc = "exited" /\ Len(commands) > 1) =>
      LET order == <<"git add data.txt", "git commit -m", "git push">> IN
      /\ Len(GitCommands) <= 3
      /\ \A i \in DOMAIN GitCommands : GitCommands[i].cmd = order[i]
      /\ \A i \in 1..(Len(GitCommands) - 1) : GitCommands[i].exit_code = 0
      /\ Len(GitCommands) < 3 => GitCommands[Len(GitCommands)].exit_code # 0
      /\ lastOp.ret = (/\ Len(GitCommands) = 3
                       /\ \A i \in 1..3 : GitCommands[i].exit_code = 0)

\* git add returned 0 and git commit did not: git push was not run.
C20_Witness ==
    /\ pc = "exited"
    /\ Len(commands) = 3
    /\ commands[2].exit_code = 0
    /\ commands[3].exit_code # 0
    /\ ~lastOp.ret

(***************************************************************************)
(* Subprocesses                                                            *)
(***************************************************************************)
\* The tuple run_command reported for a subprocess that was run.
Reported(c) == <<c.exit_code, c.stdout, c.stderr>>

\* C21: run_command never raises: it returns the exit code, stdout and
\* stderr of a command that ended, (-1, "", "Command timed out") for one
\* that timed out and (-1, "", message) for one that could not be run;
\* run_gen_table returns False on a non-zero exit code, a timeout or
\* another exception, and the program then ends with exit code 0 and runs
\* no git command.
C21_RunCommandNeverRaises ==
    /\ \A i \in DOMAIN GitCommands :
          LET c == GitCommands[i] IN
          /\ c.outcome.kind = "exit" =>
               Reported(c) = <<c.outcome.returncode, c.outcome.stdout,
                               c.outcome.stderr>>
          /\ c.outcome.kind = "timeout" =>
               Reported(c) = <<-1, "", "Command timed out">>
          /\ c.outcome.kind = "error" =>
               Reported(c) = <<-1, "", c.outcome.stderr>>
    /\ (commands # <<>> /\ commands[1].outcome
            # [kind |-> "exit", returncode |-> 0, stdout |-> "", stderr |-> ""])
          => /\ Len(commands) = 1
             /\ pc = "exited"
             /\ printed[Len(printed)].text
                  = "gen_table.py failed. Changes NOT committed or pushed."
    /\ commands # <<>> => exit_code \in {<<>>, <<0>>}

\* git add ended with exit code 0 and git commit timed out.
C21_Witness ==
    /\ pc = "exited"
    /\ Len(commands) = 3
    /\ commands[2].outcome.kind = "exit"
    /\ commands[3].outcome.kind = "timeout"
    /\ commands[3].stderr = "Command timed out"

\* The data file holds the catalog as save_books writes it.
Saved == files["data.txt"] = File(json_dump(books))

\* gen_table.py ended with exit code 0.
TableGenerated ==
    /\ commands # <<>>
    /\ commands[1].cmd = "gen_table.py"
    /\ commands[1].outcome.kind = "exit"
    /\ commands[1].outcome.returncode = 0

\* C22: in the Save-and-exit flow gen_table.py is run only after the save
\* succeeded, the commit message is asked only after gen_table.py
\* succeeded, git commands are run only after that and after the user
\* confirmed; when gen_table.py fails no git command is run and the data
\* file stays as saved.
C22_SaveThenTableThenGit ==
    [][/\ pc' = "gen_table" =>
            pc = "menu" /\ lastOp'.kind = "save" /\ Saved' /\ commands' = <<>>
       /\ pc \in {"gen_table", "confirm", "git"} =>
            files'["data.txt"] = files["data.txt"] /\ books' = books
       /\ (pc = "gen_table" /\ pc' # pc) =>
            Len(commands') = 1 /\ commands'[1].cmd = "gen_table.py"
       /\ pc' = "confirm" => pc = "gen_table" /\ TableGenerated'
       /\ pc' = "git" =>
            pc = "confirm" /\ TableGenerated /\ lastOp'.value # <<>>
       /\ Len(commands') > 1 => pc = "git" /\ TableGenerated
       /\ (pc = "gen_table" /\ ~TableGenerated') =>
            pc' = "exited" /\ Len(commands') = 1
      ]_vars

\* gen_table.py failed after an edit was saved: no git command was run.
C22_Witness ==
    /\ pc = "exited"
    /\ ops > 0
    /\ Len(commands) = 1
    /\ commands[1].outcome.kind = "exit"
    /\ commands[1].outcome.returncode = 1
    /\ Saved

\* The last line printed.
LastMessage == printed[Len(printed)].text

\* C28: "All operations completed successfully!" is printed only when git
\* add, git commit and git push all returned 0.
C28_SuccessOnlyWhenGitSucceeded ==
    (printed # <<>> /\ LastMessage = "All operations completed successfully!")
      => /\ lastOp.ret
         /\ Len(GitCommands) = 3
         /\ \A i \in 1..3 : GitCommands[i].exit_code = 0

\* C30: the data file is written only by Save and exit: no other step
\* changes it, and when the program ends by Exit without saving, after any
\* menu operations, the file is one of the files the program can start
\* from and load.
C30_OnlySaveWritesDataFile ==
    /\ [][/\ files'["data.txt"] # files["data.txt"] =>
               pc = "menu" /\ lastOp'.kind = "save"
          /\ lastOp'.kind \in {"add", "edit", "view", "invalid", "exit", "load"} =>
               files'["data.txt"] = files["data.txt"]
         ]_vars
    /\ [](lastOp.kind = "exit" =>
            /\ files["data.txt"] \in DataFiles
            /\ files["data.txt"].exists
            /\ json_load(files["data.txt"].text).ok)

\* The program ended by Exit without saving after an operation changed the
\* catalog: the data file no longer holds the catalog.
C30_Witness ==
    /\ pc = "exited"
    /\ lastOp.kind = "exit"
    /\ ops > 0
    /\ files["data.txt"].exists
    /\ ~Saved

(***************************************************************************)
(* Language labels                                                         *)
(***************************************************************************)
\* The marker the table holds for a book without a language code.
Marker == languages[<<>>]

\* A series of the list, at any depth, has no part.
EmptySeriesIn(bs) ==
    \E p \in Paths(bs) : HasData(NodeAt(bs, p)) /\ NodeAt(bs, p).data = <<>>

\* C23: the row of a book shows the label of its language code; a book
\* with no code or with a code the table does not hold gets the marker in
\* its row, and the rendering does not fail for it.
C23_UnknownLanguageShowsMarker ==
    /\ (render.stage = "raised" /\ json_load(files["data.txt"].text).ok)
          => EmptySeriesIn(GivenData)
    /\ Crawled =>
          \A k \in DOMAIN render.table :
             LET node == NodeAt(render.data, Walk(render.data)[k]) IN
             ~HasData(node) =>
                render.table[k].cells[4]
                  = IF node.language \in DOMAIN languages \ {<<>>}
                    THEN languages[node.language]
                    ELSE Marker

\* The codes the language prompt offers.
Offered == {LANGUAGES_keys[i] : i \in DOMAIN LANGUAGES_keys}

\* C24: the editor offers exactly the codes fra, lat, eng and heb, with the
\* labels the renderer shows for them, so that the codes a book can get at
\* the language prompt are the non-empty codes the renderer resolves.
C24_EditorOffersRendererCodes ==
    /\ Offered = DOMAIN LANGUAGES
    /\ Offered = {<<102, 114, 97>>, <<108, 97, 116>>, <<101, 110, 103>>,
                  <<104, 101, 98>>}
    /\ Offered = DOMAIN languages \ {<<>>}
    /\ \A code \in Offered : LANGUAGES[code] = languages[code]
    /\ \A code \in DOMAIN languages \ {<<>>} :
          get_choice_input(<<code>>, LANGUAGES_keys)
            = [done |-> TRUE, val |-> code]
    /\ \A p \in Paths(books) :
          ~HasData(NodeAt(books, p)) =>
             NodeAt(books, p).language \in DOMAIN languages \ {<<>>}

(***************************************************************************)
(* Edits and additions                                                     *)
(***************************************************************************)
\* The key _edit_simple_book writes for each choice of its menu.
LeafField ==
    <<"author", "title", "book_category", "book_size", "language",
      "page_count", "price">>

\* Path a leads to the node at path b or to one above it.
IsPrefix(a, b) == Len(a) <= Len(b) /\ SubSeq(b, 1, Len(a)) = a

\* Two dictionaries with the same keys and, but for the parts under "data",
\* the same values.
SameButData(old, new) ==
    /\ DOMAIN new = DOMAIN old
    /\ \A k \in DOMAIN old \ {"data"} : new[k] = old[k]

\* An edit of a book (a leaf) that _edit_simple_book reported as made.
LeafEdit(op, bs) ==
    /\ op.kind = "edit"
    /\ op.ret
    /\ op.path # <<>>
    /\ ~HasData(NodeAt(bs, op.path))

\* C25: an edit of a field of a book writes the entered value under that
\* one key of the selected dictionary: the other keys of the book, every
\* other node (the series that holds the book and the other parts
\* included) and the shape of the tree stay as they were.
C25_LeafEditOverwritesOneField ==
    [][LeafEdit(lastOp', books) =>
         /\ lastOp'.sub \in DOMAIN LeafField
         /\ Walk(books') = Walk(books)
         /\ \A p \in Paths(books) :
               \A old \in {NodeAt(books, p)}, new \in {NodeAt(books', p)} :
                  IF p = lastOp'.path
                  THEN new = [old EXCEPT ![LeafField[lastOp'.sub]] = lastOp'.value]
                  ELSE IF IsPrefix(p, lastOp'.path)
                       THEN SameButData(old, new)
                       ELSE new = old
      ]_vars

\* The title of a part of a series was edited; another part of the series
\* has another title.
C25_Witness ==
    /\ LeafEdit(lastOp, books)
    /\ lastOp.sub = 2
    /\ Len(lastOp.path) >= 2
    /\ \E p \in Paths(books) :
          /\ Len(p) = Len(lastOp.path)
          /\ p # lastOp.path
          /\ NodeAt(books, p).title # lastOp.value

\* The choices of the edit menu of the node at `path` that change it.
ListedChoices(bs, path) ==
    IF HasData(NodeAt(bs, path)) THEN 1..3 ELSE DOMAIN LeafField

\* C26: edit_book returns False and leaves the catalog as it was when the
\* selection is 0, when the selection finds no node, and when the choice
\* in the edit menu is 0 or is not one of the menu; it returns True only
\* when it wrote a field or appended a part.
C26_NoEditReturnsFalse ==
    [][lastOp'.kind = "edit" =>
         \A op \in {lastOp'} :
            /\ op.target = 0 => op.path = <<>>
            /\ (op.path = <<>> \/ op.sub \notin ListedChoices(books, op.path))
                  => ~op.ret /\ books' = books
            /\ op.ret =>
                  /\ op.path # <<>>
                  /\ op.sub \in ListedChoices(books, op.path)
                  /\ \A old \in {NodeAt(books, op.path)},
                        new \in {NodeAt(books', op.path)} :
                        IF ~HasData(old) THEN new[LeafField[op.sub]] = op.value
                        ELSE CASE op.sub = 1 ->
                                    /\ Len(new.data) = Len(old.data) + 1
                                    /\ SubSeq(new.data, 1, Len(old.data)) = old.data
                               [] op.sub = 2 -> new.title = op.value
                               [] OTHER -> new.author = op.value
      ]_vars

\* A book was selected and the choice in its edit menu was not one of the
\* menu.
C26_Witness ==
    /\ lastOp.kind = "edit"
    /\ lastOp.path # <<>>
    /\ ~HasData(NodeAt(books, lastOp.path))
    /\ lastOp.sub > 7
    /\ ~lastOp.ret

\* C27: add_new_book gives a book without "data" when the number of parts
\* entered is 1, and for k > 1 parts a series whose "data" holds exactly k
\* books, in the order their titles, page counts and prices were entered,
\* each with the author, category, size and language of the series.
C27_AddedBookHasEnteredParts ==
    [][(lastOp'.kind = "add" /\ lastOp'.ret) =>
         \A k \in {lastOp'.sub}, entered \in {lastOp'.value},
            book \in {books'[Len(books')]} :
            /\ books' = Append(books, book)
            /\ Len(entered) = k
            /\ k = 1 =>
                 /\ ~HasData(book)
                 /\ DOMAIN book = LeafKeys
                 /\ book.title = entered[1].title
                 /\ book.page_count = entered[1].page_count
                 /\ book.price = entered[1].price
            /\ k > 1 =>
                 /\ HasData(book)
                 /\ Len(book.data) = k
                 /\ \A i \in 1..k :
                       /\ ~HasData(book.data[i])
                       /\ DOMAIN book.data[i] = LeafKeys
                       /\ book.data[i].title = entered[i].title
                       /\ book.data[i].page_count = entered[i].page_count
                       /\ book.data[i].price = entered[i].price
                       /\ book.data[i].author = book.author
                       /\ book.data[i].book_category = book.data[1].book_category
                       /\ book.data[i].book_size = book.data[1].book_size
                       /\ book.data[i].language = book.data[1].language
      ]_vars

\* A series of two parts with different prices was added.
C27_Witness ==
    /\ lastOp.kind = "add"
    /\ lastOp.ret
    /\ lastOp.sub = 2
    /\ HasData(books[Len(books)])
    /\ lastOp.value[1].price # lastOp.value[2].price

\* C29: renaming the author of a series changes the author of the series
\* and of every node below it and nothing else: the authors of the nodes
\* above it, beside it and elsewhere, and every title, price, page count,
\* category, size, language and order of parts stay as they were.
C29_AuthorRenameStaysInSubtree ==
    [][MultiPartEdit(lastOp', books, 3) =>
         /\ Walk(books') = Walk(books)
         /\ \A p \in Paths(books) :
               \A old \in {NodeAt(books, p)}, new \in {NodeAt(books', p)} :
                  /\ DOMAIN new = DOMAIN old
                  /\ \A key \in DOMAIN old \ {"author", "data"} :
                        new[key] = old[key]
                  /\ new.author = IF IsPrefix(lastOp'.path, p)
                                  THEN lastOp'.value
                                  ELSE old.author
      ]_vars

\* The author of a series inside a series was renamed: the outer series
\* keeps another author, and the inner one has a part.
C29_Witness ==
    /\ MultiPartEdit(lastOp, books, 3)
    /\ Len(lastOp.path) >= 2
    /\ NodeAt(books, lastOp.path).data # <<>>
    /\ NodeAt(books, <<lastOp.path[1]>>).author # lastOp.value
    /\ \E p \in Paths(books) :
          ~IsPrefix(lastOp.path, p) /\ ~IsPrefix(p, lastOp.path)

=============================================================================
